---- MODULE Spec2Model ----
(***************************************************************************)
(* A model of the analytics layer of the YouTube analytics dashboard:      *)
(* the analyzers of src/src/metrics.py, forecasting.py,                    *)
(* calendar_optimizer.py and ab_testing.py, each constructed over a        *)
(* table of video records (a pandas DataFrame) and then asked for its      *)
(* analyses.                                                               *)
(*                                                                         *)
(* A table is [cols, rows]: the set of its column names and the sequence   *)
(* of its rows.  A publish timestamp is [date, hour]: the day number       *)
(* counted from Monday 2024-01-01 (day 0) and the hour of the day.         *)
(* A float is an exact fraction [n, d] with d > 0; d = 0 encodes the IEEE  *)
(* specials: [0,0] is NaN, [1,0] is +inf, [-1,0] is -inf.                  *)
(***************************************************************************)
EXTENDS Integers, Sequences, FiniteSets, TLC

VARIABLES df, an, op, args, result

vars == <<df, an, op, args, result>>

(***************************************************************************)
(* Bounds of the model.                                                    *)
(***************************************************************************)
MaxRows == 3        \* rows of a table given to the forecaster
MaxDate == 2        \* publish dates are day 0 .. MaxDate
MaxDays == 2        \* forecast horizons are 1 .. MaxDays

(***************************************************************************)
(* Floats as exact fractions.                                              *)
(***************************************************************************)
Abs(x) == IF x < 0 THEN -x ELSE x

RECURSIVE GCD(_, _)
GCD(a, b) == IF b = 0 THEN a ELSE GCD(b, a % b)

Sign(x) == IF x > 0 THEN 1 ELSE IF x < 0 THEN -1 ELSE 0

\* the fraction n/d in lowest terms; n/0 is inf, -inf or NaN as numpy divides
Rat(n, d) ==
    IF d = 0 THEN [n |-> Sign(n), d |-> 0]
    ELSE LET g == GCD(Abs(n), Abs(d))
             s == IF d < 0 THEN -1 ELSE 1
         IN  [n |-> (s * n) \div g, d |-> (s * d) \div g]

R(i) == [n |-> i, d |-> 1]
NaN == [n |-> 0, d |-> 0]
IsNaN(a) == a.d = 0 /\ a.n = 0
IsFinite(a) == a.d > 0

RAdd(a, b) ==
    IF a.d > 0 /\ b.d > 0 THEN Rat(a.n * b.d + b.n * a.d, a.d * b.d)
    ELSE IF IsNaN(a) \/ IsNaN(b) THEN NaN
    ELSE IF a.d = 0 /\ b.d = 0 THEN (IF a.n = b.n THEN a ELSE NaN)
    ELSE IF a.d = 0 THEN a ELSE b

RNeg(a) == [n |-> -a.n, d |-> a.d]
RSub(a, b) == RAdd(a, RNeg(b))

RMul(a, b) ==
    IF a.d > 0 /\ b.d > 0 THEN Rat(a.n * b.n, a.d * b.d)
    ELSE IF IsNaN(a) \/ IsNaN(b) \/ a.n = 0 \/ b.n = 0 THEN NaN
    ELSE [n |-> Sign(a.n) * Sign(b.n), d |-> 0]

\* numpy division: x/0 is +-inf, 0/0 is NaN, no exception
RDiv(a, b) ==
    IF a.d > 0 /\ b.d > 0 THEN Rat(a.n * b.d, a.d * b.n)
    ELSE IF IsNaN(a) \/ IsNaN(b) THEN NaN
    ELSE IF a.d = 0 /\ b.d = 0 THEN NaN
    ELSE IF a.d = 0 THEN [n |-> a.n * (IF b.n < 0 THEN -1 ELSE 1), d |-> 0]
    ELSE R(0)

\* comparisons; every comparison with NaN is false
RLess(a, b) == ~IsNaN(a) /\ ~IsNaN(b) /\ a.n * b.d < b.n * a.d
RLeq(a, b) == ~IsNaN(a) /\ ~IsNaN(b) /\ (a = b \/ a.n * b.d < b.n * a.d)

RECURSIVE RSum(_)
RSum(s) == IF s = <<>> THEN R(0) ELSE RAdd(Head(s), RSum(Tail(s)))

\* pandas/numpy mean: NaN for an empty series
RMean(s) == IF s = <<>> THEN NaN ELSE RDiv(RSum(s), R(Len(s)))

\* Python int(): truncation toward zero
RInt(a) == IF a.n >= 0 THEN a.n \div a.d ELSE -((-a.n) \div a.d)

\* Python max(a, b) and min(a, b) on numbers: the first argument wins unless
\* the second is strictly greater (smaller)
PyMax(a, b) == IF RLess(a, b) THEN b ELSE a
PyMin(a, b) == IF RLess(b, a) THEN b ELSE a

\* numpy.maximum / numpy.minimum: NaN propagates
NpMaximum(a, b) == IF IsNaN(a) \/ IsNaN(b) THEN NaN ELSE IF RLess(a, b) THEN b ELSE a
NpMinimum(a, b) == IF IsNaN(a) \/ IsNaN(b) THEN NaN ELSE IF RLess(b, a) THEN b ELSE a

\* numpy.clip(x, lo, hi) = minimum(maximum(x, lo), hi)
NpClip(x, lo, hi) == NpMinimum(NpMaximum(x, lo), hi)

(***************************************************************************)
(* Sequences and sets.                                                     *)
(***************************************************************************)
SeqMap(F(_), s) == [i \in 1..Len(s) |-> F(s[i])]

SetMin(S) == CHOOSE x \in S : \A y \in S : x <= y
SetMax(S) == CHOOSE x \in S : \A y \in S : x >= y

RECURSIVE SortedSeq(_)
SortedSeq(S) == IF S = {} THEN <<>> ELSE <<SetMin(S)>> \o SortedSeq(S \ {SetMin(S)})

RECURSIVE RSeqMax(_)
RSeqMax(s) == IF Len(s) = 1 THEN s[1] ELSE NpMaximum(s[1], RSeqMax(Tail(s)))
RECURSIVE RSeqMin(_)
RSeqMin(s) == IF Len(s) = 1 THEN s[1] ELSE NpMinimum(s[1], RSeqMin(Tail(s)))

(***************************************************************************)
(* The record model.                                                       *)
(***************************************************************************)
day_order == <<"Monday", "Tuesday", "Wednesday", "Thursday", "Friday", "Saturday", "Sunday">>

\* Timestamp.day_name(): day 0 is Monday 2024-01-01
day_name(date) == day_order[(date % 7) + 1]

\* the engagement rate the ETL derives for a record
EngagementRate(likes, comments, views) ==
    IF views > 0 THEN RMul(RDiv(R(likes + comments), R(views)), R(100)) ELSE R(0)

\* one transformed video record
VideoRecord(id, title, date, hour, views, likes, comments, subs) ==
    [video_id |-> id, title |-> title,
     published_at |-> [date |-> date, hour |-> hour],
     views |-> views, likes |-> likes, comments |-> comments,
     subscribers_gained |-> subs,
     engagement_rate |-> EngagementRate(likes, comments, views),
     day_of_week |-> day_name(date), hour |-> hour]

\* the columns of a transformed table
RecordCols == {"video_id", "title", "published_at", "views", "likes", "comments",
               "subscribers_gained", "engagement_rate", "day_of_week", "hour"}

\* pd.DataFrame(): the column-less empty table the persistence layer returns
\* when nothing is stored
NoColumns == [cols |-> {}, rows |-> <<>>]

\* DataFrame.empty: no rows or no columns
IsEmpty(t) == t.rows = <<>> \/ t.cols = {}

NoAnalyzer == [kind |-> "object", cls |-> "none", df |-> NoColumns]
NoResult == [kind |-> "none"]
Raise(exc) == [kind |-> "raise", exc |-> exc]
ErrorResult(msg) == [kind |-> "error", error |-> msg]

(***************************************************************************)
(* forecasting.py: TrendForecasting.                                       *)
(***************************************************************************)
\* TrendForecasting.__init__: copies the table and derives the 'date' column
\* from 'published_at'; a table without that column raises KeyError
TrendForecasting_init(t) ==
    IF "published_at" \notin t.cols THEN Raise("KeyError")
    ELSE [kind |-> "object", cls |-> "TrendForecasting",
          df |-> [cols |-> t.cols \cup {"date"}, rows |-> t.rows]]

\* the value of a numeric column in a row, as a float
MetricValue(r, metric) ==
    CASE metric = "views" -> R(r.views)
      [] metric = "subscribers_gained" -> R(r.subscribers_gained)
      [] metric = "engagement_rate" -> r.engagement_rate

Dates(t) == {t.rows[i].published_at.date : i \in 1..Len(t.rows)}

\* prepare_data: the metric summed per date, in date order, against the days
\* elapsed since the first date: a sequence of points [x, y]
prepare_data(t, metric) ==
    LET ds == SortedSeq(Dates(t))
        OnDate(d) == SelectSeq(t.rows, LAMBDA r : r.published_at.date = d)
    IN  [i \in 1..Len(ds) |->
            [x |-> ds[i] - ds[1],
             y |-> RSum([j \in 1..Len(OnDate(ds[i])) |-> MetricValue(OnDate(ds[i])[j], metric)])]]

Ys(data) == [i \in 1..Len(data) |-> data[i].y]

RECURSIVE Pow(_, _)
Pow(x, k) == IF k = 0 THEN 1 ELSE x * Pow(x, k - 1)

\* sum over the points of x^k * y^m (m is 0 or 1)
RECURSIVE Moment(_, _, _)
Moment(data, k, m) ==
    IF data = <<>> THEN R(0)
    ELSE RAdd(RMul(R(Pow(Head(data).x, k)), IF m = 1 THEN Head(data).y ELSE R(1)),
              Moment(Tail(data), k, m))

\* LinearRegression().fit(X, y).predict(xf): ordinary least squares with an
\* intercept on one feature
LinearPredict(data, xf) ==
    LET n == R(Len(data))
        Sx == Moment(data, 1, 0)
        Sy == Moment(data, 0, 1)
        Sxx == Moment(data, 2, 0)
        Sxy == Moment(data, 1, 1)
        slope == RDiv(RSub(RMul(n, Sxy), RMul(Sx, Sy)), RSub(RMul(n, Sxx), RMul(Sx, Sx)))
        intercept == RDiv(RSub(Sy, RMul(slope, Sx)), n)
    IN  RAdd(intercept, RMul(slope, R(xf)))

Det3(a, b, c, d, e, f, g, h, i) ==
    RAdd(RSub(RMul(a, RSub(RMul(e, i), RMul(f, h))),
              RMul(b, RSub(RMul(d, i), RMul(f, g)))),
         RMul(c, RSub(RMul(d, h), RMul(e, g))))

\* PolynomialFeatures(degree=2) followed by LinearRegression: least squares
\* fit of c0 + c1 x + c2 x^2, solved by Cramer's rule on the normal equations
PolyPredict(data, xf) ==
    LET S0 == R(Len(data))
        S1 == Moment(data, 1, 0)
        S2 == Moment(data, 2, 0)
        S3 == Moment(data, 3, 0)
        S4 == Moment(data, 4, 0)
        T0 == Moment(data, 0, 1)
        T1 == Moment(data, 1, 1)
        T2 == Moment(data, 2, 1)
        D  == Det3(S0, S1, S2, S1, S2, S3, S2, S3, S4)
        c0 == RDiv(Det3(T0, S1, S2, T1, S2, S3, T2, S3, S4), D)
        c1 == RDiv(Det3(S0, T0, S2, S1, T1, S3, S2, T2, S4), D)
        c2 == RDiv(Det3(S0, S1, T0, S1, S2, T1, S2, S3, T2), D)
    IN  RAdd(c0, RAdd(RMul(c1, R(xf)), RMul(c2, R(xf * xf))))

\* the program constant of the model selection: polynomial from 10 days on
PolyMinDays == 10

\* len(X) < 2: not enough distinct days to fit a model
InsufficientData_1(data) == Len(data) < 1
InsufficientData(data) == Len(data) < 2

\* future_days: the forecast days, counted from the first date of the table
future_days(t, days) ==
    [i \in 1..days |-> (SetMax(Dates(t)) + i) - SetMin(Dates(t))]

future_dates(t, days) == [i \in 1..days |-> SetMax(Dates(t)) + i]

\* forecast_views lines 82-93: the predictions capped to
\* [max(0, min/2), 2 max] of the fitted series, then floored at 0
ClampPredictions_floor_only(raw, y) == [i \in 1..Len(raw) |-> NpMaximum(raw[i], R(0))]
ClampPredictions(raw, y) ==
    LET max_views == RSeqMax(y)
        min_views == RSeqMin(y)
        lower_bound == PyMax(R(0), RMul(min_views, Rat(1, 2)))
        upper_bound == RMul(max_views, R(2))
    IN  [i \in 1..Len(raw) |->
            NpMaximum(NpClip(raw[i], lower_bound, upper_bound), R(0))]

\* the raw predictions of forecast_views, before capping
RawViews(data, xs) ==
    [i \in 1..Len(xs) |->
        IF Len(data) >= PolyMinDays THEN PolyPredict(data, xs[i])
        ELSE LinearPredict(data, xs[i])]

forecast_views(t, days) ==
    LET data == prepare_data(t, "views")
        predictions == ClampPredictions(RawViews(data, future_days(t, days)), Ys(data))
    IN  IF InsufficientData(data) THEN ErrorResult("Not enough data for forecasting")
        ELSE IF ~IsFinite(RSum(predictions)) THEN Raise("ValueError")   \* int(nan)
        ELSE [kind |-> "ok",
              predictions |-> predictions,
              dates |-> future_dates(t, days),
              model_type |-> IF Len(data) >= PolyMinDays THEN "polynomial" ELSE "linear",
              total |-> RInt(RSum(predictions)),
              average |-> RInt(RDiv(RSum(predictions), R(days)))]

\* the raw predictions of the two linear-only forecasts
RawLinear(data, xs) == [i \in 1..Len(xs) |-> LinearPredict(data, xs[i])]

forecast_subscribers(t, days) ==
    LET data == prepare_data(t, "subscribers_gained")
        raw == RawLinear(data, future_days(t, days))
        predictions == [i \in 1..days |-> NpMaximum(raw[i], R(0))]
    IN  IF "subscribers_gained" \notin t.cols THEN ErrorResult("Subscriber data not available")
        ELSE IF InsufficientData(data) THEN ErrorResult("Not enough data for forecasting")
        ELSE IF ~IsFinite(RSum(predictions)) THEN Raise("ValueError")   \* int(nan)
        ELSE [kind |-> "ok",
              predictions |-> predictions,
              dates |-> future_dates(t, days),
              total |-> RInt(RSum(predictions)),
              average |-> RInt(RDiv(RSum(predictions), R(days)))]

forecast_engagement(t, days) ==
    LET data == prepare_data(t, "engagement_rate")
        raw == RawLinear(data, future_days(t, days))
        predictions == [i \in 1..days |-> NpClip(raw[i], R(0), R(100))]
    IN  IF "engagement_rate" \notin t.cols THEN Raise("KeyError")
        ELSE IF InsufficientData(data) THEN ErrorResult("Not enough data for forecasting")
        ELSE [kind |-> "ok",
              predictions |-> predictions,
              dates |-> future_dates(t, days),
              average |-> RDiv(RSum(predictions), R(days))]

(***************************************************************************)
(* The forecaster's operations as actions.                                 *)
(***************************************************************************)
NewTrendForecasting ==
    /\ op' = "TrendForecasting"
    /\ args' = <<>>
    /\ IF TrendForecasting_init(df).kind = "raise"
       THEN an' = NoAnalyzer /\ result' = TrendForecasting_init(df)
       ELSE an' = TrendForecasting_init(df) /\ result' = NoResult
    /\ UNCHANGED df

ForecastViews ==
    /\ an.cls = "TrendForecasting"
    /\ \E days \in 1..MaxDays :
          /\ args' = <<days>>
          /\ result' = forecast_views(an.df, days)
    /\ op' = "forecast_views"
    /\ UNCHANGED <<df, an>>

ForecastSubscribers ==
    /\ an.cls = "TrendForecasting"
    /\ \E days \in 1..MaxDays :
          /\ args' = <<days>>
          /\ result' = forecast_subscribers(an.df, days)
    /\ op' = "forecast_subscribers"
    /\ UNCHANGED <<df, an>>

ForecastEngagement ==
    /\ an.cls = "TrendForecasting"
    /\ \E days \in 1..MaxDays :
          /\ args' = <<days>>
          /\ result' = forecast_engagement(an.df, days)
    /\ op' = "forecast_engagement"
    /\ UNCHANGED <<df, an>>

(***************************************************************************)
(* The tables given to the forecaster: up to MaxRows records in publish    *)
(* order, published on days 0..MaxDate, with or without the optional       *)
(* subscribers column, and the two empty tables.                           *)
(***************************************************************************)
\* the (views, subscribers gained) of a record
ForecastMetrics == {<<0, 0>>, <<1, 2>>, <<3, 0>>}

NoCall == /\ an = NoAnalyzer /\ op = "none" /\ args = <<>> /\ result = NoResult

ForecastTables ==
    {NoColumns} \cup
    { [cols |-> c, rows |-> [i \in DOMAIN f |->
            VideoRecord(i, <<"v">>, f[i][1], 12, f[i][2][1], 1, 0, f[i][2][2])]] :
        c \in {RecordCols, RecordCols \ {"subscribers_gained"}},
        f \in {g \in UNION {[1..m -> (0..MaxDate) \X ForecastMetrics] : m \in 0..MaxRows} :
                   \A i \in DOMAIN g : i = 1 \/ g[i - 1][1] <= g[i][1]} }

InitForecast ==
    /\ df \in ForecastTables
    /\ NoCall

NextForecast ==
    \/ NewTrendForecasting
    \/ ForecastViews
    \/ ForecastSubscribers
    \/ ForecastEngagement

SpecForecast == InitForecast /\ [][NextForecast]_vars

(***************************************************************************)
(* metrics.py: AnalyticsMetrics.                                           *)
(***************************************************************************)
\* AnalyticsMetrics.__init__: keeps the caller's table itself, not a copy
AnalyticsMetrics_init(t) == [kind |-> "object", cls |-> "AnalyticsMetrics", df |-> t]

\* a numeric column of the table as a sequence of floats
Column(t, c) ==
    [i \in 1..Len(t.rows) |->
        CASE c = "views" -> R(t.rows[i].views)
          [] c = "likes" -> R(t.rows[i].likes)
          [] c = "comments" -> R(t.rows[i].comments)
          [] c = "subscribers_gained" -> R(t.rows[i].subscribers_gained)
          [] c = "engagement_rate" -> t.rows[i].engagement_rate]

\* column.sum() if the column is present, else the default 0
SumOrZero(t, c) == IF c \in t.cols THEN RSum(Column(t, c)) ELSE R(0)
MeanOrZero(t, c) == IF c \in t.cols THEN RMean(Column(t, c)) ELSE R(0)

\* get_summary_stats line 42: the mean of the engagement_rate column when it is
\* present, else (likes + comments) / views_sum * 100, or 0 when views_sum is 0
avg_engagement_rate_unguarded(t) ==
    IF "engagement_rate" \in t.cols THEN RMean(Column(t, "engagement_rate"))
    ELSE RMul(RDiv(RAdd(SumOrZero(t, "likes"), SumOrZero(t, "comments")),
                   RSum(Column(t, "views"))), R(100))
avg_engagement_rate(t) ==
    IF "engagement_rate" \in t.cols THEN RMean(Column(t, "engagement_rate"))
    ELSE IF RLess(R(0), RSum(Column(t, "views")))
         THEN RMul(RDiv(RAdd(SumOrZero(t, "likes"), SumOrZero(t, "comments")),
                        RSum(Column(t, "views"))), R(100))
         ELSE R(0)

\* get_summary_stats; the impressions, ctr and watch-time columns are in no
\* table of the model, so their statistics are the defaults of absent columns
get_summary_stats(t) ==
    IF IsEmpty(t) THEN [kind |-> "empty"]
    ELSE IF "views" \notin t.cols THEN Raise("KeyError")
    ELSE [kind |-> "ok",
          total_videos |-> Len(t.rows),
          total_views |-> RInt(RSum(Column(t, "views"))),
          total_likes |-> RInt(SumOrZero(t, "likes")),
          total_comments |-> RInt(SumOrZero(t, "comments")),
          avg_views |-> RMean(Column(t, "views")),
          avg_likes |-> MeanOrZero(t, "likes"),
          avg_comments |-> MeanOrZero(t, "comments"),
          avg_engagement_rate |-> avg_engagement_rate(t),
          total_watch_time_hours |-> R(0),
          avg_ctr |-> R(0),
          total_impressions |-> 0,
          total_subscribers |-> RInt(SumOrZero(t, "subscribers_gained")),
          avg_subscribers |-> MeanOrZero(t, "subscribers_gained")]

NewAnalyticsMetrics ==
    /\ op' = "AnalyticsMetrics"
    /\ args' = <<>>
    /\ an' = AnalyticsMetrics_init(df)
    /\ result' = NoResult
    /\ UNCHANGED df

GetSummaryStats ==
    /\ an.cls = "AnalyticsMetrics"
    /\ op' = "get_summary_stats"
    /\ args' = <<>>
    /\ result' = get_summary_stats(an.df)
    /\ UNCHANGED <<df, an>>

(***************************************************************************)
(* The tables given to the summary: up to MaxRows records with few or no   *)
(* views, with and without the derived and the optional columns.           *)
(***************************************************************************)
SummaryMetrics == {0, 2} \X {0, 1} \X {0, 1}     \* views, likes, comments

SummaryCols ==
    {RecordCols, RecordCols \ {"engagement_rate"},
     RecordCols \ {"engagement_rate", "likes", "comments", "subscribers_gained"}}

SummaryTables ==
    {NoColumns} \cup
    { [cols |-> c, rows |-> [i \in DOMAIN f |->
            VideoRecord(i, <<"v">>, 0, 12, f[i][1], f[i][2], f[i][3], 0)]] :
        c \in SummaryCols,
        f \in UNION {[1..m -> SummaryMetrics] : m \in 0..MaxRows} }

InitSummary ==
    /\ df \in SummaryTables
    /\ NoCall

NextSummary ==
    \/ NewAnalyticsMetrics
    \/ GetSummaryStats

SpecSummary == InitSummary /\ [][NextSummary]_vars

(***************************************************************************)
(* Frames indexed by a bucket key (the result of groupby().agg()):         *)
(* [index, data], the keys in order and the statistics of each key.        *)
(***************************************************************************)
Range(s) == {s[i] : i \in 1..Len(s)}

\* Body applied to a value that is computed once
Bind(value, Body(_)) == CHOOSE r \in {Body(x) : x \in {value}} : TRUE

KeyOf(r, col) == IF col = "day_of_week" THEN r.day_of_week ELSE r.hour

RowsWith(t, col, k) == SelectSeq(t.rows, LAMBDA r : KeyOf(r, col) = k)

Keys(t, col) == {KeyOf(t.rows[i], col) : i \in 1..Len(t.rows)}

\* the rows of a group as a one-group table
Group(t, col, k) == [cols |-> t.cols, rows |-> RowsWith(t, col, k)]

\* DataFrame.reindex(order): the rows of the keys in 'order', in that order;
\* a key of 'order' that the frame lacks gets a row of NaN
reindex(frame, order, nanrow) ==
    [index |-> order,
     data |-> [k \in Range(order) |->
                 IF k \in DOMAIN frame.data THEN frame.data[k] ELSE nanrow]]

\* Series.idxmax() / idxmin() of a column of the frame: the first key, in
\* index order, whose value is the largest (smallest), NaN skipped; with
\* nothing but NaN the label is NaN
idxmin(frame, field) ==
    LET valid == SelectSeq(frame.index, LAMBDA k : ~IsNaN(frame.data[k][field]))
        first == CHOOSE i \in 1..Len(valid) :
                    /\ \A j \in 1..Len(valid) :
                          RLeq(frame.data[valid[i]][field], frame.data[valid[j]][field])
                    /\ \A j \in 1..(i - 1) :
                          frame.data[valid[j]][field] # frame.data[valid[i]][field]
    IN  IF valid = <<>> THEN "NaN" ELSE valid[first]
idxmax(frame, field) ==
    LET valid == SelectSeq(frame.index, LAMBDA k : ~IsNaN(frame.data[k][field]))
        first == CHOOSE i \in 1..Len(valid) :
                    /\ \A j \in 1..Len(valid) :
                          RLeq(frame.data[valid[j]][field], frame.data[valid[i]][field])
                    /\ \A j \in 1..(i - 1) :
                          frame.data[valid[j]][field] # frame.data[valid[i]][field]
    IN  IF valid = <<>> THEN "NaN" ELSE valid[first]

\* DataFrame.nlargest(n, field).index: the keys of the n largest values,
\* largest first, ties in index order, NaN dropped
AllNaN(frame, field) == \A k \in Range(frame.index) : IsNaN(frame.data[k][field])

RECURSIVE nlargest(_, _, _)
nlargest(frame, n, field) ==
    IF n = 0 \/ AllNaN(frame, field) THEN <<>>
    ELSE LET k == idxmax(frame, field)
             rest == [index |-> SelectSeq(frame.index, LAMBDA x : x # k),
                      data |-> frame.data]
         IN  <<k>> \o nlargest(rest, n - 1, field)

\* DataFrame.to_dict(): column name -> (index key -> value)
to_dict(frame, columns) ==
    [c \in columns |-> [k \in Range(frame.index) |-> frame.data[k][c]]]

\* Series.mean() of floats, NaN skipped
MeanSkipNaN(s) == RMean(SelectSeq(s, LAMBDA x : ~IsNaN(x)))

(***************************************************************************)
(* metrics.py: get_performance_by_day.                                     *)
(***************************************************************************)
NaNDayPerformance ==
    [views |-> NaN, likes |-> NaN, comments |-> NaN, engagement_rate |-> NaN,
     video_count |-> NaN]

\* lines 74-80: the per-weekday means and the count of video ids
by_day_performance(t) ==
    [index |-> SortedSeq({i \in 1..7 : day_order[i] \in Keys(t, "day_of_week")}),
     data |-> [k \in Keys(t, "day_of_week") |->
        LET g == Group(t, "day_of_week", k)
        IN  [views |-> RMean(Column(g, "views")),
             likes |-> RMean(Column(g, "likes")),
             comments |-> RMean(Column(g, "comments")),
             engagement_rate |-> RMean(Column(g, "engagement_rate")),
             video_count |-> R(Len(g.rows))]]]

get_performance_by_day(t) ==
    IF IsEmpty(t) THEN [kind |-> "empty"]
    ELSE IF "day_of_week" \notin t.cols THEN Raise("KeyError")
    ELSE LET by_day == reindex(by_day_performance(t), day_order, NaNDayPerformance)
         IN  [kind |-> "ok",
              \* reset_index(): one row per index entry, the key as a column
              rows |-> [i \in 1..Len(by_day.index) |->
                          [day_of_week |-> by_day.index[i],
                           stats |-> by_day.data[by_day.index[i]]]]]

GetPerformanceByDay ==
    /\ an.cls = "AnalyticsMetrics"
    /\ op' = "get_performance_by_day"
    /\ args' = <<>>
    /\ result' = get_performance_by_day(an.df)
    /\ UNCHANGED <<df, an>>

(***************************************************************************)
(* calendar_optimizer.py: CalendarOptimizer.                               *)
(***************************************************************************)
\* CalendarOptimizer.__init__: copies the table; the timestamps of the model
\* carry no timezone, so _detect_timezone settles on 'UTC'
CalendarOptimizer_init(t) ==
    [kind |-> "object", cls |-> "CalendarOptimizer", df |-> t, timezone |-> "UTC"]

NaNDayStats ==
    [avg_views |-> NaN, total_views |-> NaN, video_count |-> NaN,
     avg_engagement |-> NaN, avg_likes |-> NaN, avg_comments |-> NaN]

\* analyze_best_days lines 68-70: the weekday column derived when missing
with_day_of_week(t) == [cols |-> t.cols \cup {"day_of_week"}, rows |-> t.rows]

\* lines 77-84: the per-weekday statistics
by_day_stats(t) ==
    [index |-> SortedSeq({i \in 1..7 : day_order[i] \in Keys(t, "day_of_week")}),
     data |-> [k \in Keys(t, "day_of_week") |->
        LET g == Group(t, "day_of_week", k)
        IN  [avg_views |-> RMean(Column(g, "views")),
             total_views |-> RSum(Column(g, "views")),
             video_count |-> R(Len(g.rows)),
             avg_engagement |-> RMean(Column(g, "engagement_rate")),
             avg_likes |-> RMean(Column(g, "likes")),
             avg_comments |-> RMean(Column(g, "comments"))]]]

\* _get_day_recommendation: the best day and whether weekends beat weekdays
day_recommendation(by_day) ==
    LET avg(days) == MeanSkipNaN([i \in 1..Len(days) |-> by_day.data[days[i]].avg_views])
    IN  [best_day |-> idxmax(by_day, "avg_views"),
         weekends_better |->
            RLess(avg(<<"Monday", "Tuesday", "Wednesday", "Thursday", "Friday">>),
                  avg(<<"Saturday", "Sunday">>))]

analyze_best_days(t) ==
    IF IsEmpty(t) THEN ErrorResult("No data available")
    ELSE IF "day_of_week" \notin t.cols /\ "published_at" \notin t.cols
    THEN ErrorResult("No date data available to analyze days")
    ELSE LET by_day == reindex(by_day_stats(t), day_order, NaNDayStats)
         IN  [kind |-> "ok",
              daily_stats |-> to_dict(by_day, DOMAIN NaNDayStats),
              best_day_for_views |-> idxmax(by_day, "avg_views"),
              best_day_for_engagement |-> idxmax(by_day, "avg_engagement"),
              recommendation |-> day_recommendation(by_day)]

with_hour(t) == [cols |-> t.cols \cup {"hour"}, rows |-> t.rows]

\* lines 110-115: the per-hour statistics, hours ascending
by_hour_stats(t) ==
    [index |-> SortedSeq(Keys(t, "hour")),
     data |-> [k \in Keys(t, "hour") |->
        LET g == Group(t, "hour", k)
        IN  [avg_views |-> RMean(Column(g, "views")),
             total_views |-> RSum(Column(g, "views")),
             video_count |-> R(Len(g.rows)),
             avg_engagement |-> RMean(Column(g, "engagement_rate"))]]]

analyze_best_hours(t, timezone) ==
    IF IsEmpty(t) THEN ErrorResult("No data available")
    ELSE IF "hour" \notin t.cols /\ "published_at" \notin t.cols
    THEN ErrorResult("No time data available to analyze hours")
    ELSE LET by_hour == by_hour_stats(t)
         IN  [kind |-> "ok",
              hourly_stats |-> to_dict(by_hour,
                   {"avg_views", "total_views", "video_count", "avg_engagement"}),
              best_hour_for_views |-> idxmax(by_hour, "avg_views"),
              best_hour_for_engagement |-> idxmax(by_hour, "avg_engagement"),
              top_3_hours |-> nlargest(by_hour, 3, "avg_views"),
              timezone |-> timezone]

NewCalendarOptimizer ==
    /\ op' = "CalendarOptimizer"
    /\ args' = <<>>
    /\ an' = CalendarOptimizer_init(df)
    /\ result' = NoResult
    /\ UNCHANGED df

AnalyzeBestDays ==
    /\ an.cls = "CalendarOptimizer"
    /\ op' = "analyze_best_days"
    /\ args' = <<>>
    /\ result' = analyze_best_days(an.df)
    /\ an' = IF ~IsEmpty(an.df) /\ "published_at" \in an.df.cols
             THEN [an EXCEPT !.df = with_day_of_week(an.df)] ELSE an
    /\ UNCHANGED df

AnalyzeBestHours ==
    /\ an.cls = "CalendarOptimizer"
    /\ op' = "analyze_best_hours"
    /\ args' = <<>>
    /\ result' = analyze_best_hours(an.df, an.timezone)
    /\ an' = IF ~IsEmpty(an.df) /\ "published_at" \in an.df.cols
             THEN [an EXCEPT !.df = with_hour(an.df)] ELSE an
    /\ UNCHANGED df

(***************************************************************************)
(* The tables given to the temporal analyses: up to MaxRows records in     *)
(* publish order on days 0..MaxDate at one of two hours, as transformed    *)
(* (with the weekday and hour columns) or as loaded from storage (without) *)
(***************************************************************************)
Hours == {9, 14}
TemporalMetrics == {<<1000, 10>>, <<1000, 40>>, <<3000, 30>>}    \* views, likes

StoredCols == RecordCols \ {"day_of_week", "hour"}

Earlier(a, b) == a[1] < b[1] \/ (a[1] = b[1] /\ a[2] <= b[2])

TemporalTables ==
    {NoColumns} \cup
    { [cols |-> c, rows |-> [i \in DOMAIN f |->
            VideoRecord(i, <<"v">>, f[i][1], f[i][2], f[i][3][1], f[i][3][2], 0, 0)]] :
        c \in {RecordCols, StoredCols},
        f \in {g \in UNION {[1..m -> (0..MaxDate) \X Hours \X TemporalMetrics] : m \in 0..MaxRows} :
                   \A i \in DOMAIN g : i = 1 \/ Earlier(g[i - 1], g[i])} }

InitTemporal ==
    /\ df \in TemporalTables
    /\ NoCall

NextTemporal ==
    \/ NewAnalyticsMetrics
    \/ GetPerformanceByDay
    \/ NewCalendarOptimizer
    \/ AnalyzeBestDays
    \/ AnalyzeBestHours

SpecTemporal == InitTemporal /\ [][NextTemporal]_vars

(***************************************************************************)
(* Claims about the forecaster, checked under SpecForecast.                *)
(***************************************************************************)
ForecastOps == {"forecast_views", "forecast_subscribers", "forecast_engagement"}

DistinctDays(t) == Cardinality(Dates(t))

\* the clamp interval of the claims, from the per-day series of a metric
HistLower(t, metric) ==
    LET half == RDiv(RSeqMin(Ys(prepare_data(t, metric))), R(2))
    IN  IF RLess(R(0), half) THEN half ELSE R(0)
HistUpper(t, metric) == RMul(R(2), RSeqMax(Ys(prepare_data(t, metric))))

Within(p, lo, hi) == RLeq(lo, p) /\ RLeq(p, hi)

C2_OtherForecastsClamped ==
    (/\ op \in {"forecast_subscribers", "forecast_engagement"}
     /\ DistinctDays(an.df) >= 2
     /\ result.kind = "ok") =>
        \A i \in 1..Len(result.predictions) :
            Within(result.predictions[i],
                   HistLower(an.df, IF op = "forecast_subscribers"
                                    THEN "subscribers_gained" ELSE "engagement_rate"),
                   HistUpper(an.df, IF op = "forecast_subscribers"
                                    THEN "subscribers_gained" ELSE "engagement_rate"))

\* C3: on a non-empty table with fewer than 2 distinct publish dates each
\* forecast returns an 'error' result without predictions and does not raise
C3_TooFewDaysIsError ==
    (op \in ForecastOps /\ an.df.rows # <<>> /\ DistinctDays(an.df) < 2) =>
        /\ result.kind = "error"
        /\ "predictions" \notin DOMAIN result

\* C3 witness: several records of one day, forecast asked, error returned
C3_Witness ==
    /\ op = "forecast_engagement"
    /\ Len(an.df.rows) >= 2 /\ DistinctDays(an.df) = 1
    /\ result.kind = "error"

\* C4 (as claimed): on an empty table no constructor and no operation raises
C4_EmptyNeverRaises ==
    IsEmpty(df) => result.kind # "raise"

(***************************************************************************)
(* Claims about the summary, checked under SpecSummary.                    *)
(***************************************************************************)
RECURSIVE IntSum(_)
IntSum(s) == IF s = <<>> THEN 0 ELSE Head(s) + IntSum(Tail(s))

TotalViews(t) == IntSum([i \in 1..Len(t.rows) |-> t.rows[i].views])

\* C5: on a non-empty table whose views sum to 0, get_summary_stats returns
\* (does not raise) and its avg_engagement_rate is exactly 0: not NaN, not
\* infinite; with or without the engagement_rate column
C5_ZeroViewsZeroEngagement ==
    (op = "get_summary_stats" /\ an.df.rows # <<>> /\ TotalViews(an.df) = 0) =>
        /\ result.kind = "ok"
        /\ result.avg_engagement_rate = R(0)

\* C5 witness: two records with views 0 and 0 and some likes, and no
\* engagement_rate column, summarised
C5_Witness ==
    /\ op = "get_summary_stats"
    /\ Len(an.df.rows) = 2 /\ TotalViews(an.df) = 0
    /\ "engagement_rate" \notin an.df.cols
    /\ "likes" \in an.df.cols /\ an.df.rows[1].likes > 0
    /\ result.kind = "ok" /\ result.avg_engagement_rate = R(0)

(***************************************************************************)
(* Claims about the temporal analyses, checked under SpecTemporal.         *)
(***************************************************************************)
\* the sum of the values of a mapping bucket key -> value
RECURSIVE SumOver(_, _)
SumOver(column, keys) ==
    IF keys = {} THEN R(0)
    ELSE LET k == CHOOSE x \in keys : TRUE
         IN  RAdd(column[k], SumOver(column, keys \ {k}))

Records(t) == R(Len(t.rows))

\* C6 (as claimed): the reported per-weekday video counts sum to the number
\* of records, for analyze_best_days and get_performance_by_day, and the
\* per-hour counts of analyze_best_hours do too
C6_CountsSumToRecords ==
    /\ (op = "analyze_best_days" /\ result.kind = "ok") =>
          SumOver(result.daily_stats.video_count, DOMAIN result.daily_stats.video_count)
             = Records(an.df)
    /\ (op = "get_performance_by_day" /\ result.kind = "ok") =>
          RSum([i \in 1..Len(result.rows) |-> result.rows[i].stats.video_count])
             = Records(an.df)
    /\ (op = "analyze_best_hours" /\ result.kind = "ok") =>
          SumOver(result.hourly_stats.video_count, DOMAIN result.hourly_stats.video_count)
             = Records(an.df)

\* C7 (as claimed): a weekday (an hour) has an entry in the bucket statistics
\* exactly when at least one record falls on it
C7_OnlyPopulatedBuckets ==
    /\ (op = "analyze_best_days" /\ result.kind = "ok") =>
          \A c \in DOMAIN result.daily_stats :
             DOMAIN result.daily_stats[c] = Keys(an.df, "day_of_week")
    /\ (op = "get_performance_by_day" /\ result.kind = "ok") =>
          {result.rows[i].day_of_week : i \in 1..Len(result.rows)}
             = Keys(an.df, "day_of_week")
    /\ (op = "analyze_best_hours" /\ result.kind = "ok") =>
          \A c \in DOMAIN result.hourly_stats :
             DOMAIN result.hourly_stats[c] = Keys(an.df, "hour")

\* the mean of a column over the records of one bucket
BucketMean(t, col, k, metric) == RMean(Column(Group(t, col, k), metric))

IsBest(t, col, best, metric) ==
    /\ best \in Keys(t, col)
    /\ \A k \in Keys(t, col) :
          RLeq(BucketMean(t, col, k, metric), BucketMean(t, col, best, metric))

\* every record on one bucket key, with the same views
Uniform(t, col) ==
    /\ Cardinality(Keys(t, col)) = 1
    /\ \A i \in 1..Len(t.rows) : t.rows[i].views = t.rows[1].views

\* C8: on a non-empty table the best day for views has the largest mean views
\* among the weekdays with records, the best day for engagement the largest
\* mean engagement, the best hour for views the largest mean views among the
\* hours with records; when all records share one weekday (hour) and one view
\* count v, that weekday (hour) is the best and its avg_views is v
C8_BestBucketsAreMaximal ==
    /\ (op = "analyze_best_days" /\ an.df.rows # <<>>) =>
          /\ result.kind = "ok"
          /\ IsBest(an.df, "day_of_week", result.best_day_for_views, "views")
          /\ IsBest(an.df, "day_of_week", result.best_day_for_engagement, "engagement_rate")
          /\ Uniform(an.df, "day_of_week") =>
                /\ result.best_day_for_views = an.df.rows[1].day_of_week
                /\ result.daily_stats.avg_views[an.df.rows[1].day_of_week]
                      = R(an.df.rows[1].views)
    /\ (op = "analyze_best_hours" /\ an.df.rows # <<>>) =>
          /\ result.kind = "ok"
          /\ IsBest(an.df, "hour", result.best_hour_for_views, "views")
          /\ Uniform(an.df, "hour") =>
                /\ result.best_hour_for_views = an.df.rows[1].hour
                /\ result.hourly_stats.avg_views[an.df.rows[1].hour]
                      = R(an.df.rows[1].views)

\* C8 witness: records on several weekdays, where the best day for views
\* and the best day for engagement differ
C8_Witness ==
    /\ op = "analyze_best_days" /\ result.kind = "ok"
    /\ Cardinality(Keys(an.df, "day_of_week")) >= 2
    /\ result.best_day_for_views # result.best_day_for_engagement

(***************************************************************************)
(* ab_testing.py: ABTestSimulator.  A title is a sequence of characters.   *)
(***************************************************************************)
UpperCase == <<"A", "B", "C", "D", "E", "F", "G", "H", "I", "J", "K", "L", "M",
               "N", "O", "P", "Q", "R", "S", "T", "U", "V", "W", "X", "Y", "Z">>
LowerCase == <<"a", "b", "c", "d", "e", "f", "g", "h", "i", "j", "k", "l", "m",
               "n", "o", "p", "q", "r", "s", "t", "u", "v", "w", "x", "y", "z">>
Digits == {"0", "1", "2", "3", "4", "5", "6", "7", "8", "9"}

\* str.lower()
lower(title) ==
    [i \in 1..Len(title) |->
        IF \E j \in 1..26 : UpperCase[j] = title[i]
        THEN LowerCase[CHOOSE j \in 1..26 : UpperCase[j] = title[i]]
        ELSE title[i]]

\* 'title.startswith(pattern)'
StartsWith(title, pattern) ==
    Len(pattern) <= Len(title) /\ SubSeq(title, 1, Len(pattern)) = pattern

\* 'pattern in title'
Contains(title, pattern) ==
    \E i \in 0..(Len(title) - Len(pattern)) :
        SubSeq(title, i + 1, i + Len(pattern)) = pattern

\* re.search(r'\d+', title)
HasDigit(title) == \E i \in 1..Len(title) : title[i] \in Digits

feature_cols == <<"number", "howto", "tips", "secrets", "guide", "versus", "list",
                  "review", "myth", "why", "best", "beginner", "advanced", "question">>

\* _extract_single_title_features, and the has_* columns of
\* extract_title_features, which are computed the same way
single_title_features(title) ==
    LET t == lower(title)
    IN  [number |-> HasDigit(t),
         howto |-> Contains(t, <<"h", "o", "w", " ", "t", "o">>) \/ Contains(t, <<"h", "o", "w", "-", "t", "o">>),
         tips |-> Contains(t, <<"t", "i", "p">>) \/ Contains(t, <<"t", "i", "p", "s">>),
         secrets |-> Contains(t, <<"s", "e", "c", "r", "e", "t">>) \/ Contains(t, <<"s", "e", "c", "r", "e", "t", "s">>),
         guide |-> Contains(t, <<"g", "u", "i", "d", "e">>) \/ Contains(t, <<"t", "u", "t", "o", "r", "i", "a", "l">>),
         versus |-> Contains(t, <<"v", "s">>) \/ Contains(t, <<"v", "e", "r", "s", "u", "s">>),
         list |-> Contains(t, <<"l", "i", "s", "t">>),
         review |-> Contains(t, <<"r", "e", "v", "i", "e", "w">>),
         myth |-> Contains(t, <<"m", "y", "t", "h">>) \/ Contains(t, <<"f", "a", "l", "s", "e">>),
         why |-> Contains(t, <<"w", "h", "y">>),
         best |-> Contains(t, <<"b", "e", "s", "t">>),
         beginner |-> Contains(t, <<"b", "e", "g", "i", "n", "n", "e", "r">>) \/ Contains(t, <<"s", "t", "a", "r", "t">>),
         advanced |-> Contains(t, <<"a", "d", "v", "a", "n", "c", "e", "d">>) \/ Contains(t, <<"p", "r", "o">>),
         question |-> Contains(t, <<"?">>)]

\* the titles of the records and of the simulated changes
TitleWhy == <<"W", "h", "y", " ", "R", "u", "n", "?">>
TitleTopQ == <<"T", "o", "p", " ", "5", "?">>
TitleTop == <<"T", "o", "p", " ", "5">>
ABTitles == <<TitleWhy, TitleTopQ, TitleTop>>

\* single_title_features of these titles, computed once for each
TitleFeatures == [title \in Range(ABTitles) |-> single_title_features(title)]

ABTestSimulator_init(t) == [kind |-> "object", cls |-> "ABTestSimulator", df |-> t]

\* extract_title_features: one row of features per record; a table without
\* rows gives the empty frame
extract_title_features(t) ==
    [i \in 1..Len(t.rows) |->
        [video_id |-> t.rows[i].video_id,
         views |-> IF "views" \in t.cols THEN t.rows[i].views ELSE 0,
         has |-> TitleFeatures[t.rows[i].title]]]

min_sample_size == 3

\* line 110: enough samples on both sides
EnoughSamples_with_only(with_feature, without_feature) ==
    Len(with_feature) >= min_sample_size

EnoughSamples(with_feature, without_feature) ==
    /\ Len(with_feature) >= min_sample_size
    /\ Len(without_feature) >= min_sample_size

\* round(x, 2): to two decimals, ties to the even neighbour
round2(x) ==
    LET h == RMul(x, R(100))
        fl == h.n \div h.d
        twice == 2 * (h.n - fl * h.d)
        k == IF twice < h.d THEN fl
             ELSE IF twice > h.d THEN fl + 1
             ELSE IF fl % 2 = 0 THEN fl ELSE fl + 1
    IN  Rat(k, 100)

ViewsOf(features) == [i \in 1..Len(features) |-> R(features[i].views)]

\* the entry of one feature with the improvement left uncapped
pattern_info_uncapped(with_feature, without_feature) ==
    LET avg_views_with == RMean(ViewsOf(with_feature))
        avg_views_without == RMean(ViewsOf(without_feature))
        improvement == RMul(RDiv(RSub(avg_views_with, avg_views_without), avg_views_without), R(100))
        total_samples == Len(with_feature) + Len(without_feature)
    IN  [avg_views_with |-> RInt(avg_views_with),
         avg_views_without |-> RInt(avg_views_without),
         improvement_percentage |-> round2(improvement),
         sample_size_with |-> Len(with_feature),
         sample_size_without |-> Len(without_feature),
         confidence |-> IF total_samples >= 20 THEN "High"
                        ELSE IF total_samples >= 10 THEN "Medium" ELSE "Low",
         recommendation |-> IF RLess(R(0), improvement) THEN "Use this pattern"
                            ELSE "Avoid this pattern"]

\* lines 111-137: the entry of one feature
pattern_info(with_feature, without_feature) ==
    LET avg_views_with == RMean(ViewsOf(with_feature))
        avg_views_without == RMean(ViewsOf(without_feature))
        raw == RMul(RDiv(RSub(avg_views_with, avg_views_without), avg_views_without), R(100))
        improvement == PyMax(R(-30), PyMin(R(30), raw))
        total_samples == Len(with_feature) + Len(without_feature)
    IN  [avg_views_with |-> RInt(avg_views_with),
         avg_views_without |-> RInt(avg_views_without),
         improvement_percentage |-> round2(improvement),
         sample_size_with |-> Len(with_feature),
         sample_size_without |-> Len(without_feature),
         confidence |-> IF total_samples >= 20 THEN "High"
                        ELSE IF total_samples >= 10 THEN "Medium" ELSE "Low",
         recommendation |-> IF RLess(R(0), improvement) THEN "Use this pattern"
                            ELSE "Avoid this pattern"]

analyze_title_patterns(t) ==
    Bind(extract_title_features(t), LAMBDA features_df :
        LET with(f) == SelectSeq(features_df, LAMBDA r : r.has[f])
            without(f) == SelectSeq(features_df, LAMBDA r : ~r.has[f])
            reported == {f \in Range(feature_cols) :
                            /\ EnoughSamples(with(f), without(f))
                            /\ RLess(R(0), RMean(ViewsOf(without(f))))}
        IN  IF features_df = <<>> THEN ErrorResult("No data available")
            ELSE [kind |-> "ok",
                  patterns |-> [f \in reported |-> pattern_info(with(f), without(f))]])

\* the changed features with the improvement of the feature unsigned, as if
\* removing a feature were worth as much as adding it
pattern_details_unsigned(current_features, new_features, patterns) ==
    LET changed == SelectSeq(feature_cols, LAMBDA f :
                       /\ patterns.kind = "ok"
                       /\ f \in DOMAIN patterns.patterns
                       /\ new_features[f] # current_features[f])
    IN  [i \in 1..Len(changed) |->
            LET info == patterns.patterns[changed[i]]
            IN  [pattern |-> changed[i],
                 change |-> IF new_features[changed[i]] THEN "Added" ELSE "Removed",
                 expected_impact |-> info.improvement_percentage,
                 confidence |-> info.confidence,
                 sample_size |-> info.sample_size_with]]

\* lines 154-175: the changed features that the analysis reports, in
\* feature order, each with its signed improvement
pattern_details(current_features, new_features, patterns) ==
    LET changed == SelectSeq(feature_cols, LAMBDA f :
                       /\ patterns.kind = "ok"
                       /\ f \in DOMAIN patterns.patterns
                       /\ new_features[f] # current_features[f])
    IN  [i \in 1..Len(changed) |->
            LET info == patterns.patterns[changed[i]]
            IN  IF new_features[changed[i]]
                THEN [pattern |-> changed[i], change |-> "Added",
                      expected_impact |-> info.improvement_percentage,
                      confidence |-> info.confidence,
                      sample_size |-> info.sample_size_with]
                ELSE [pattern |-> changed[i], change |-> "Removed",
                      expected_impact |-> RNeg(info.improvement_percentage),
                      confidence |-> info.confidence,
                      sample_size |-> info.sample_size_without]]

\* the raw mean of the improvements, neither damped nor capped
expected_change_raw(improvements) ==
    IF improvements # <<>> THEN RMean(improvements) ELSE R(0)

\* the mean of the improvements capped but not damped
expected_change_undamped(improvements) ==
    IF improvements # <<>>
    THEN PyMax(R(-25), PyMin(R(25), RMean(improvements)))
    ELSE R(0)

\* lines 178-187: the mean of the improvements, damped by half and capped
expected_change(improvements) ==
    IF improvements # <<>>
    THEN LET raw_change == RMean(improvements)
             damped == RMul(raw_change, Rat(1, 2))
         IN  PyMax(R(-25), PyMin(R(25), damped))
    ELSE R(0)

calculate_confidence(improvements, details) ==
    IF improvements = <<>> THEN "Low"
    ELSE IF \E i \in 1..Len(details) : details[i].sample_size < 3
    THEN "Low - Need more data"
    ELSE IF Len(improvements) >= 3 THEN "Medium"
    ELSE IF Len(improvements) >= 2 THEN "Low-Medium"
    ELSE "Low - Limited data"

get_title_recommendation(change) ==
    IF RLess(R(10), change) THEN "Moderately recommended - slight improvement possible"
    ELSE IF RLess(R(3), change) THEN "Slight improvement possible - worth testing"
    ELSE IF RLess(R(-3), change) THEN "Minimal impact expected - title change unlikely to help"
    ELSE IF RLess(R(-10), change) THEN "Not recommended - slight decrease possible"
    ELSE "Avoid this change - negative impact likely"

simulate_title_change(t, current_title, new_title) ==
    Bind(analyze_title_patterns(t), LAMBDA patterns :
    Bind(pattern_details(TitleFeatures[current_title],
                         TitleFeatures[new_title], patterns), LAMBDA details :
        LET improvements == [i \in 1..Len(details) |-> details[i].expected_impact]
            change == expected_change(improvements)
        IN  [kind |-> "ok",
             current_title |-> current_title,
             new_title |-> new_title,
             expected_ctr_change |-> round2(change),
             expected_improvement |-> round2(change),
             confidence |-> calculate_confidence(improvements, details),
             pattern_details |-> details,
             sample_info |-> [total_videos |-> Len(t.rows)],
             recommendation |-> get_title_recommendation(change)]))

NewABTestSimulator ==
    /\ op' = "ABTestSimulator"
    /\ args' = <<>>
    /\ an' = ABTestSimulator_init(df)
    /\ result' = NoResult
    /\ UNCHANGED df

AnalyzeTitlePatterns ==
    /\ an.cls = "ABTestSimulator"
    /\ op' = "analyze_title_patterns"
    /\ args' = <<>>
    /\ result' = analyze_title_patterns(an.df)
    /\ UNCHANGED <<df, an>>

(***************************************************************************)
(* The tables given to the simulator: up to MaxPerTitle records of each of *)
(* the three titles, one a day, with few or many views.                    *)
(***************************************************************************)
MaxPerTitle == 3

ABViews == {1, 3}

SimulateTitleChange ==
    /\ an.cls = "ABTestSimulator"
    /\ \E current_title \in Range(ABTitles), new_title \in Range(ABTitles) :
          /\ op' = "simulate_title_change"
          /\ args' = <<current_title, new_title>>
          /\ result' = simulate_title_change(an.df, current_title, new_title)
    /\ UNCHANGED <<df, an>>

\* the view counts of the records of one title, in non-decreasing order
ViewLists(views) ==
    {v \in UNION {[1..m -> views] : m \in 0..MaxPerTitle} :
        \A i \in DOMAIN v : i = 1 \/ v[i - 1] <= v[i]}

ABRows(a, b, c) ==
    LET titles == [i \in 1..Len(a) |-> 1] \o [i \in 1..Len(b) |-> 2] \o [i \in 1..Len(c) |-> 3]
        views == a \o b \o c
    IN  [i \in 1..Len(views) |->
            VideoRecord(i, ABTitles[titles[i]], i, 12, views[i], 1, 0, 0)]

\* the records of the third title have many views or none at all
ABTables ==
    {NoColumns} \cup
    { [cols |-> RecordCols, rows |-> ABRows(a, b, c)] :
        a \in ViewLists(ABViews), b \in ViewLists(ABViews),
        c \in ViewLists({0, 3}) }

InitAB ==
    /\ df \in ABTables
    /\ NoCall

NextAB ==
    \/ NewABTestSimulator
    \/ AnalyzeTitlePatterns
    \/ SimulateTitleChange

SpecAB == InitAB /\ [][NextAB]_vars

(***************************************************************************)
(* Claims about the title simulator, checked under SpecAB.                 *)
(***************************************************************************)
\* the records of the table whose title has (has not) the feature, counted
\* from the titles
CountWith(t, f) ==
    Cardinality({i \in 1..Len(t.rows) : TitleFeatures[t.rows[i].title][f]})

CountWithout(t, f) == Len(t.rows) - CountWith(t, f)

\* C9: every feature in the result of analyze_title_patterns has
\* sample_size_with >= 3 and sample_size_without >= 3, and these are the
\* numbers of records with and without the feature; a feature with fewer
\* than 3 records on either side is absent
C9_ReportedFeaturesHaveSamples ==
    (op = "analyze_title_patterns" /\ result.kind = "ok") =>
        \A f \in Range(feature_cols) :
            /\ f \in DOMAIN result.patterns =>
                  /\ result.patterns[f].sample_size_with >= 3
                  /\ result.patterns[f].sample_size_without >= 3
                  /\ result.patterns[f].sample_size_with = CountWith(an.df, f)
                  /\ result.patterns[f].sample_size_without = CountWithout(an.df, f)
            /\ (CountWith(an.df, f) < 3 \/ CountWithout(an.df, f) < 3) =>
                  f \notin DOMAIN result.patterns

\* C9 witness: one feature is reported while another, present in a title
\* but with fewer than 3 records on one side, is left out
C9_Witness ==
    /\ op = "analyze_title_patterns" /\ result.kind = "ok"
    /\ "question" \in DOMAIN result.patterns
    /\ CountWith(an.df, "why") \in 1..2
    /\ "why" \notin DOMAIN result.patterns

\* C10: the expected_improvement returned by simulate_title_change lies
\* within [-25, 25]
C10_ExpectedImprovementBounded ==
    op = "simulate_title_change" =>
        /\ RLeq(R(-25), result.expected_improvement)
        /\ RLeq(result.expected_improvement, R(25))

\* C10 witness: a title change that adds a reported feature whose
\* improvement is at its cap, so that the undamped mean exceeds 25
C10_Witness ==
    /\ op = "simulate_title_change"
    /\ \E i \in 1..Len(result.pattern_details) :
          result.pattern_details[i].expected_impact = R(30)
    /\ RLess(R(0), result.expected_improvement)

\* C11 (as claimed): for a title t without '?', simulate_title_change(t, t + '?')
\* returns pattern_details with exactly one entry, 'question' 'Added',
\* whatever the table
C11_QuestionMarkAdded ==
    (/\ op = "simulate_title_change"
     /\ "?" \notin Range(args[1])
     /\ args[2] = args[1] \o <<"?">>) =>
        /\ Len(result.pattern_details) = 1
        /\ result.pattern_details[1].pattern = "question"
        /\ result.pattern_details[1].change = "Added"

(***************************************************************************)
(* pattern_detection.py: PatternDetection.detect_content_themes.           *)
(***************************************************************************)
PatternDetection_init(t) == [kind |-> "object", cls |-> "PatternDetection", df |-> t]

\* the characters \w matches in a lowercased title
WordChars == Range(LowerCase) \cup Digits \cup {"_"}

\* the maximal runs of word characters of a title, in order
RECURSIVE Runs(_, _)
Runs(title, cur) ==
    IF title = <<>> THEN (IF cur = <<>> THEN <<>> ELSE <<cur>>)
    ELSE IF Head(title) \in WordChars THEN Runs(Tail(title), Append(cur, Head(title)))
    ELSE (IF cur = <<>> THEN <<>> ELSE <<cur>>) \o Runs(Tail(title), <<>>)

\* re.findall(r'\b\w{4,}\b', title): the words of four characters or more
findall_words(title) == SelectSeq(Runs(title, <<>>), LAMBDA w : Len(w) >= 4)

\* the elements of a sequence without repetition, in order of first occurrence
RECURSIVE Distinct(_)
Distinct(s) ==
    IF s = <<>> THEN <<>>
    ELSE LET init == Distinct(SubSeq(s, 1, Len(s) - 1))
         IN  IF s[Len(s)] \in Range(init) THEN init ELSE Append(init, s[Len(s)])

RECURSIVE Concat(_)
Concat(ss) == IF ss = <<>> THEN <<>> ELSE Head(ss) \o Concat(Tail(ss))

CountOf(s, w) == Cardinality({i \in 1..Len(s) : s[i] = w})

\* a stable sort of records on one field, largest first
RECURSIVE SortDescending(_, _)
SortDescending(s, field) ==
    IF s = <<>> THEN <<>>
    ELSE LET i == CHOOSE j \in 1..Len(s) :
                     /\ \A k \in 1..Len(s) : s[k][field] <= s[j][field]
                     /\ \A k \in 1..(j - 1) : s[k][field] < s[j][field]
         IN  <<s[i]>> \o SortDescending(SubSeq(s, 1, i - 1) \o SubSeq(s, i + 1, Len(s)), field)

Take(s, n) == SubSeq(s, 1, IF Len(s) < n THEN Len(s) ELSE n)

\* the titles of the records given to the detector
TitleMic == <<"M", "i", "c", " ", "R", "e", "v", "i", "e", "w">>
TitleHeadphones == <<"H", "e", "a", "d", "p", "h", "o", "n", "e", "s", " ", "r", "e", "v", "i", "e", "w">>
TitleTips == <<"T", "i", "p", "s", " ", "R", "e", "v", "i", "e", "w">>
TitleVlog == <<"v", "l", "o", "g">>
PatternTitles == {TitleMic, TitleHeadphones, TitleTips, TitleVlog}

\* the lowercased titles and their words, computed once for each title
LowerTitle == [title \in PatternTitles |-> lower(title)]
TitleWords == [title \in PatternTitles |-> findall_words(lower(title))]

\* lines 31-47: the candidate keywords, in the iteration order of the dict:
\* the words seen twice or more in order of first occurrence, or, with fewer
\* than three of those, the ten most frequent words
common_words(t) ==
    Bind(Concat([i \in 1..Len(t.rows) |-> TitleWords[t.rows[i].title]]), LAMBDA all_words :
        LET counted == SeqMap(LAMBDA w : [word |-> w, count |-> CountOf(all_words, w)],
                              Distinct(all_words))
            recurring == SelectSeq(counted, LAMBDA c : c.count >= 2)
            chosen == IF Len(recurring) < 3 THEN Take(SortDescending(counted, "count"), 10)
                      ELSE recurring
        IN  SeqMap(LAMBDA c : c.word, chosen))

\* max(matched_themes, key=len): the first of the longest
shortest(matched) ==
    matched[CHOOSE i \in 1..Len(matched) :
               /\ \A j \in 1..Len(matched) : Len(matched[i]) <= Len(matched[j])
               /\ \A j \in 1..(i - 1) : Len(matched[j]) > Len(matched[i])]

longest(matched) ==
    matched[CHOOSE i \in 1..Len(matched) :
               /\ \A j \in 1..Len(matched) : Len(matched[j]) <= Len(matched[i])
               /\ \A j \in 1..(i - 1) : Len(matched[j]) < Len(matched[i])]

\* lines 56-63: the theme of a title, <<>> when no candidate keyword is in it
primary_theme(title, candidates) ==
    LET matched_themes == SelectSeq(candidates, LAMBDA w : Contains(LowerTitle[title], w))
    IN  IF matched_themes = <<>> THEN <<>> ELSE longest(matched_themes)

\* str.title(): the first letter of every run of letters in upper case
no_title(word) == word

str_title(word) ==
    [i \in 1..Len(word) |->
        IF /\ word[i] \in Range(LowerCase)
           /\ (i = 1 \/ word[i - 1] \notin (Range(LowerCase) \cup Range(UpperCase)))
        THEN UpperCase[CHOOSE j \in 1..26 : LowerCase[j] = word[i]]
        ELSE IF i > 1 /\ word[i] \in Range(UpperCase)
                /\ word[i - 1] \in (Range(LowerCase) \cup Range(UpperCase))
        THEN LowerCase[CHOOSE j \in 1..26 : UpperCase[j] = word[i]]
        ELSE word[i]]

\* _rate_performance
rate_performance(t, avg_views) ==
    LET overall_avg == RMean(Column(t, "views"))
    IN  IF RLeq(RMul(overall_avg, Rat(3, 2)), R(avg_views)) THEN "Excellent"
        ELSE IF RLeq(overall_avg, R(avg_views)) THEN "Good"
        ELSE IF RLeq(RMul(overall_avg, Rat(1, 2)), R(avg_views)) THEN "Average"
        ELSE "Below Average"

detect_content_themes(t) ==
    IF IsEmpty(t) THEN [kind |-> "ok", themes |-> <<>>]
    ELSE
    Bind(common_words(t), LAMBDA candidates :
    Bind([i \in 1..Len(t.rows) |-> primary_theme(t.rows[i].title, candidates)], LAMBDA primary :
        LET \* the themes in the order their first video comes
            keys == Distinct(SelectSeq(primary, LAMBDA k : k # <<>>))
            videos(k) == SeqMap(LAMBDA i : t.rows[i],
                                SelectSeq([i \in 1..Len(primary) |-> i], LAMBDA i : primary[i] = k))
            themes == SeqMap(LAMBDA k :
                LET avg_views == RInt(RMean(Column([cols |-> t.cols, rows |-> videos(k)], "views")))
                IN  [theme |-> str_title(k),
                     count |-> Len(videos(k)),
                     avg_views |-> avg_views,
                     example_title |-> Take(videos(k)[1].title, 50),
                     performance |-> rate_performance(t, avg_views)], keys)
        IN  [kind |-> "ok", themes |-> Take(SortDescending(themes, "avg_views"), 10)]))

NewPatternDetection ==
    /\ op' = "PatternDetection"
    /\ args' = <<>>
    /\ an' = PatternDetection_init(df)
    /\ result' = NoResult
    /\ UNCHANGED df

DetectContentThemes ==
    /\ an.cls = "PatternDetection"
    /\ op' = "detect_content_themes"
    /\ args' = <<>>
    /\ result' = detect_content_themes(an.df)
    /\ UNCHANGED <<df, an>>

(***************************************************************************)
(* The tables given to the detector: up to MaxRows records, one a day,     *)
(* each with one of the titles and few or many views.                      *)
(***************************************************************************)
PatternViews == {10, 25}

PatternTables ==
    {NoColumns} \cup
    { [cols |-> RecordCols, rows |-> [i \in DOMAIN f |->
            VideoRecord(i, f[i][1], i, 12, f[i][2], 1, 0, 0)]] :
        f \in UNION {[1..m -> PatternTitles \X PatternViews] : m \in 0..MaxRows} }

InitPattern ==
    /\ df \in PatternTables
    /\ NoCall

NextPattern ==
    \/ NewPatternDetection
    \/ DetectContentThemes

SpecPattern == InitPattern /\ [][NextPattern]_vars

(***************************************************************************)
(* Claims about the pattern detector, checked under SpecPattern.           *)
(***************************************************************************)
\* the candidate keywords found in a title
Matches(t, i) ==
    {w \in Range(common_words(t)) : Contains(LowerTitle[t.rows[i].title], w)}

\* k is the longest candidate keyword in the title of record i, the earliest
\* candidate among those of that length
IsLongestMatch(t, i, k) ==
    LET position(w) == CHOOSE j \in 1..Len(common_words(t)) : common_words(t)[j] = w
    IN  /\ k \in Matches(t, i)
        /\ \A w \in Matches(t, i) :
              \/ Len(w) < Len(k)
              \/ Len(w) = Len(k) /\ position(k) <= position(w)

ThemeCounts == [i \in 1..Len(result.themes) |-> result.themes[i].count]

\* C12: the member counts of the themes sum to at most the number of
\* records, no two themes carry the same label, and each theme counts the
\* records whose longest matching candidate keyword is the theme's
C12_SingleLabelThemes ==
    (op = "detect_content_themes" /\ an.df.rows # <<>>) =>
        /\ IntSum(ThemeCounts) <= Len(an.df.rows)
        /\ \A i, j \in 1..Len(result.themes) :
              result.themes[i].theme = result.themes[j].theme => i = j
        /\ \A k \in Range(common_words(an.df)) :
              LET members == {i \in 1..Len(an.df.rows) : IsLongestMatch(an.df, i, k)}
              IN  IF members = {}
                  THEN \A i \in 1..Len(result.themes) : result.themes[i].theme # str_title(k)
                  ELSE \E i \in 1..Len(result.themes) :
                          /\ result.themes[i].theme = str_title(k)
                          /\ result.themes[i].count = Cardinality(members)

\* C12 witness: a record whose title holds two candidate keywords
C12_Witness ==
    /\ op = "detect_content_themes"
    /\ \E i \in 1..Len(an.df.rows) : Cardinality(Matches(an.df, i)) >= 2
    /\ Len(result.themes) >= 2

\* the analysis has what it needs to report the 'question' feature: 3 titles
\* or more with a '?', 3 or more without, and views among those without
QuestionReported(t) ==
    LET asking == {i \in 1..Len(t.rows) : "?" \in Range(t.rows[i].title)}
        plain == (1..Len(t.rows)) \ asking
    IN  /\ Cardinality(asking) >= 3
        /\ Cardinality(plain) >= 3
        /\ \E i \in plain : t.rows[i].views > 0

\* C11 (amended): for a title t without '?', simulate_title_change(t, t + '?')
\* returns exactly one entry, 'question' 'Added', when the table lets the
\* analysis report the feature, and no entry when it does not
C11_QuestionMarkAddedWhenReported ==
    (/\ op = "simulate_title_change"
     /\ "?" \notin Range(args[1])
     /\ args[2] = args[1] \o <<"?">>) =>
        IF QuestionReported(an.df)
        THEN /\ Len(result.pattern_details) = 1
             /\ result.pattern_details[1].pattern = "question"
             /\ result.pattern_details[1].change = "Added"
        ELSE result.pattern_details = <<>>

\* C11 witness: the change from a title to the same title with a '?', on a
\* table that reports the feature
C11_Witness ==
    /\ op = "simulate_title_change"
    /\ args = <<TitleTop, TitleTopQ>>
    /\ QuestionReported(an.df)
    /\ Len(result.pattern_details) = 1

WordReview == <<"r", "e", "v", "i", "e", "w">>

\* every title of the table holds the word 'review', in at least 2 records
AllReviews(t) ==
    /\ Len(t.rows) >= 2
    /\ \A i \in 1..Len(t.rows) : WordReview \in Range(TitleWords[t.rows[i].title])

HasReviewTheme(themes, n) ==
    \E i \in 1..Len(themes) :
        /\ themes[i].theme = <<"R", "e", "v", "i", "e", "w">>
        /\ themes[i].count = n

\* C13 (as claimed): when every title holds the word 'review', in 2 records
\* or more, there is a theme 'Review' that counts every record, whatever
\* other words the titles hold
C13_ReviewThemeAlways ==
    (op = "detect_content_themes" /\ AllReviews(an.df)) =>
        HasReviewTheme(result.themes, Len(an.df.rows))

\* C13 (amended): the same, for titles whose other words are all shorter
\* than 'review'
C13_ReviewThemeWhenLongest ==
    (/\ op = "detect_content_themes" /\ AllReviews(an.df)
     /\ \A i \in 1..Len(an.df.rows) : \A w \in Range(TitleWords[an.df.rows[i].title]) :
           w = WordReview \/ Len(w) < Len(WordReview)) =>
        HasReviewTheme(result.themes, Len(an.df.rows))

\* C13 witness: review titles, one of them with another, shorter word
C13_Witness ==
    /\ op = "detect_content_themes" /\ AllReviews(an.df)
    /\ \E i \in 1..Len(an.df.rows) : an.df.rows[i].title = TitleTips
    /\ \A i \in 1..Len(an.df.rows) : an.df.rows[i].title \in {TitleTips, TitleMic}
    /\ HasReviewTheme(result.themes, Len(an.df.rows))

(***************************************************************************)
(* ab_testing.py: analyze_thumbnail and compare_thumbnails.  The bytes of  *)
(* a thumbnail are given by what the image library makes of them: whether  *)
(* they decode, and the statistics of the decoded picture.                 *)
(***************************************************************************)
RAbs(a) == IF RLess(a, R(0)) THEN RNeg(a) ELSE a

\* bytes that do not decode
Garbage == [decodes |-> FALSE]

\* the except branch of analyze_thumbnail (also the result without Pillow)
analysis_failed ==
    [error |-> "Failed to analyze image", brightness |-> R(0), contrast |-> R(0),
     colorfulness |-> R(0), has_text_like_features |-> FALSE,
     face_like_features |-> FALSE, composition_score |-> R(0)]

analyze_thumbnail(image_data) ==
    IF ~image_data.decodes THEN analysis_failed
    ELSE LET mean == image_data.mean
             stddev == image_data.stddev
             brightness == RDiv(R(mean[1] + mean[2] + mean[3]), R(3))
             contrast == RDiv(R(stddev[1] + stddev[2] + stddev[3]), R(3))
             colorfulness == Abs(mean[1] - mean[2]) + Abs(mean[2] - mean[3])
                                + Abs(mean[3] - mean[1])
             edge_intensity == R(image_data.edge_mean)
             skin_ratio == image_data.skin_ratio
             brightness_variance == stddev[1] * stddev[1] + stddev[2] * stddev[2]
                                       + stddev[3] * stddev[3]
             composition_score == PyMin(R(100), Rat(brightness_variance, 1000))
         IN  [brightness |-> round2(brightness),
              contrast |-> round2(contrast),
              colorfulness |-> round2(R(colorfulness)),
              edge_intensity |-> round2(edge_intensity),
              has_face_like_features |-> RLess(Rat(5, 100), skin_ratio)
                                            /\ RLess(skin_ratio, Rat(6, 10)),
              has_text_like_features |-> RLess(R(20), edge_intensity),
              composition_score |-> round2(composition_score),
              size |-> image_data.size,
              aspect_ratio |-> IF image_data.size[2] > 0
                               THEN round2(Rat(image_data.size[1], image_data.size[2]))
                               ELSE R(0)]

\* lines 427-438: the brightness loop adds the points to its own variable
\* 'score', which score_a and score_b never receive; the reason text is kept
brightness_points_added(brightness) ==
    IF RLeq(R(100), brightness) /\ RLeq(brightness, R(180)) THEN 15 ELSE 5

brightness_points(brightness) == 0

brightness_reason(brightness) ==
    IF RLeq(R(100), brightness) /\ RLeq(brightness, R(180)) THEN "Good brightness"
    ELSE IF RLess(R(180), brightness) THEN "Slightly bright"
    ELSE "Could be brighter"

\* the points of one side of a comparison 'higher wins': win, lose, draw
Versus(mine, theirs, win, draw) ==
    IF RLess(theirs, mine) THEN win ELSE IF RLess(mine, theirs) THEN 0 ELSE draw

target_ratio == Rat(16, 9)

\* lines 421-496: the score of one thumbnail against the other
thumbnail_score(mine, theirs) ==
    brightness_points(mine.brightness)
    + Versus(mine.contrast, theirs.contrast, 10, 5)
    + Versus(mine.colorfulness, theirs.colorfulness, 10, 5)
    + (IF mine.has_face_like_features THEN 20 ELSE 0)
    + (IF mine.has_text_like_features THEN 15 ELSE 0)
    + Versus(mine.edge_intensity, theirs.edge_intensity, 10, 0)
    + Versus(RAbs(RSub(theirs.aspect_ratio, target_ratio)),
             RAbs(RSub(mine.aspect_ratio, target_ratio)), 10, 0)

thumbnail_reasons(mine, theirs) ==
    <<brightness_reason(mine.brightness)>>
    \o (IF RLess(theirs.contrast, mine.contrast) THEN <<"Better contrast">> ELSE <<>>)
    \o (IF RLess(theirs.colorfulness, mine.colorfulness) THEN <<"More vibrant colors">> ELSE <<>>)
    \o (IF mine.has_face_like_features THEN <<"Contains face (great for CTR!)">> ELSE <<>>)
    \o (IF mine.has_text_like_features THEN <<"Has text/sharp elements">> ELSE <<>>)
    \o (IF RLess(theirs.edge_intensity, mine.edge_intensity) THEN <<"Sharper image">> ELSE <<>>)
    \o (IF RLess(RAbs(RSub(mine.aspect_ratio, target_ratio)),
                 RAbs(RSub(theirs.aspect_ratio, target_ratio)))
        THEN <<"Better aspect ratio (closer to 16:9)">> ELSE <<>>)

\* lines 498-509
winner_reversed(score_a, score_b) ==
    IF score_a > score_b THEN "B" ELSE IF score_b > score_a THEN "A" ELSE "Tie"

winner(score_a, score_b) ==
    IF score_a > score_b THEN "A" ELSE IF score_b > score_a THEN "B" ELSE "Tie"

compare_thumbnails(thumb_a_data, thumb_b_data) ==
    LET analysis_a == analyze_thumbnail(thumb_a_data)
        analysis_b == analyze_thumbnail(thumb_b_data)
    IN  IF "error" \in DOMAIN analysis_a \/ "error" \in DOMAIN analysis_b
        THEN [kind |-> "ok",
              error |-> IF "error" \in DOMAIN analysis_a THEN analysis_a.error
                        ELSE analysis_b.error,
              recommendation |-> "Unable to analyze thumbnails",
              winner |-> "None"]
        ELSE LET score_a == thumbnail_score(analysis_a, analysis_b)
                 score_b == thumbnail_score(analysis_b, analysis_a)
             IN  [kind |-> "ok",
                  winner |-> winner(score_a, score_b),
                  score_a |-> score_a,
                  score_b |-> score_b,
                  analysis_a |-> analysis_a,
                  analysis_b |-> analysis_b,
                  reasons_a |-> thumbnail_reasons(analysis_a, analysis_b),
                  reasons_b |-> thumbnail_reasons(analysis_b, analysis_a)]

(***************************************************************************)
(* The thumbnails: grey pictures, dark, medium or bright, flat or          *)
(* contrasted; the medium flat one also reddish, sharp, with skin tones or *)
(* not wide; and bytes that do not decode.                                 *)
(***************************************************************************)
Picture(grey, red, dev, edge, skin, size) ==
    [decodes |-> TRUE, mean |-> <<grey + red, grey, grey>>,
     stddev |-> <<dev, dev, dev>>, edge_mean |-> edge, skin_ratio |-> skin,
     size |-> size]

Thumbnails ==
    {Garbage}
    \cup {Picture(grey, 0, dev, 5, R(0), <<1280, 720>>) : grey \in {60, 120, 200}, dev \in {10, 50}}
    \cup {Picture(120, 30, 10, 5, R(0), <<1280, 720>>),
          Picture(120, 0, 10, 30, R(0), <<1280, 720>>),
          Picture(120, 0, 10, 5, Rat(1, 4), <<1280, 720>>),
          Picture(120, 0, 10, 5, R(0), <<640, 480>>)}

AnalyzeThumbnail ==
    /\ an.cls = "ABTestSimulator"
    /\ \E image_data \in Thumbnails :
          /\ op' = "analyze_thumbnail"
          /\ args' = <<image_data>>
          /\ result' = [kind |-> "ok", analysis |-> analyze_thumbnail(image_data)]
    /\ UNCHANGED <<df, an>>

CompareThumbnails ==
    /\ an.cls = "ABTestSimulator"
    /\ \E thumb_a_data \in Thumbnails, thumb_b_data \in Thumbnails :
          /\ op' = "compare_thumbnails"
          /\ args' = <<thumb_a_data, thumb_b_data>>
          /\ result' = compare_thumbnails(thumb_a_data, thumb_b_data)
    /\ UNCHANGED <<df, an>>

InitThumbnail ==
    /\ df = NoColumns
    /\ NoCall

NextThumbnail ==
    \/ NewABTestSimulator
    \/ AnalyzeThumbnail
    \/ CompareThumbnails

SpecThumbnail == InitThumbnail /\ [][NextThumbnail]_vars

(***************************************************************************)
(* Claims about the thumbnail comparison, checked under SpecThumbnail.     *)
(***************************************************************************)
BothDecode == args[1].decodes /\ args[2].decodes

\* C14: comparing a decodable image with itself gives equal scores and the
\* winner 'Tie'; for any two decodable images the winner is 'A' exactly when
\* score_a > score_b, 'B' exactly when score_b > score_a, 'Tie' exactly when
\* the scores are equal
C14_WinnerFollowsScores ==
    (op = "compare_thumbnails" /\ BothDecode) =>
        /\ args[1] = args[2] =>
              result.score_a = result.score_b /\ result.winner = "Tie"
        /\ result.winner = "A" <=> result.score_a > result.score_b
        /\ result.winner = "B" <=> result.score_b > result.score_a
        /\ result.winner = "Tie" <=> result.score_a = result.score_b

\* C14 witness: a decodable image compared with itself
C14_Witness ==
    /\ op = "compare_thumbnails" /\ BothDecode
    /\ args[1] = args[2]
    /\ result.winner = "Tie"

\* C15 (as claimed): when either thumbnail does not decode, the result of
\* compare_thumbnails carries an 'error' field and both scores, set to the
\* same neutral value
C15_DecodeFailureKeepsScores ==
    (op = "compare_thumbnails" /\ ~BothDecode) =>
        /\ result.kind # "raise"
        /\ "error" \in DOMAIN result
        /\ "score_a" \in DOMAIN result /\ "score_b" \in DOMAIN result
        /\ result.score_a = result.score_b

\* the two pictures measure alike in everything but their brightness
DifferInBrightnessOnly(a, b) ==
    /\ analyze_thumbnail(a).brightness # analyze_thumbnail(b).brightness
    /\ [analyze_thumbnail(a) EXCEPT !.brightness = analyze_thumbnail(b).brightness]
           = analyze_thumbnail(b)

InRange(picture) == analyze_thumbnail(picture).brightness \in
                        {R(x) : x \in 100..180}

\* C16 (as claimed): the scores of two thumbnails that differ only in that
\* one has its brightness in [100, 180] and the other has not differ by 10
C16_BrightnessPointsCount ==
    (/\ op = "compare_thumbnails" /\ BothDecode
     /\ DifferInBrightnessOnly(args[1], args[2])
     /\ InRange(args[1]) # InRange(args[2])) =>
        Abs(result.score_a - result.score_b) = 10

(***************************************************************************)
(* metrics.py: the operations of AnalyticsMetrics that write to self.df.   *)
(* AnalyticsMetrics.__init__ stores the caller's table itself (self.df =   *)
(* df), so self.df and the caller's table are one object: what these       *)
(* operations write to an.df is written to df.                             *)
(***************************************************************************)
\* pd.to_datetime(column, utc=True) on the timezone-less timestamps of a
\* record: the value is localised to UTC (an aware timestamp stays as it is)
to_datetime_utc(ts) == [date |-> ts.date, hour |-> ts.hour, tz |-> "UTC"]

\* get_growth_trends line 108: the published_at column is replaced
with_utc(t) ==
    [cols |-> t.cols \cup {"published_at"},
     rows |-> [i \in 1..Len(t.rows) |->
                  [t.rows[i] EXCEPT !.published_at = to_datetime_utc(@)]]]

\* get_growth_trends: the records published on or after the cutoff day
get_growth_trends(t, now, days) ==
    IF IsEmpty(t) THEN NoColumns
    ELSE IF "published_at" \notin t.cols THEN Raise("KeyError")
    ELSE [cols |-> t.cols,
          rows |-> SelectSeq(with_utc(t).rows,
                             LAMBDA r : r.published_at.date >= now - days)]

\* Series.dt.to_period('M'): day 0 is 2024-01-01
to_period_M(ts) == IF ts.date < 31 THEN "2024-01" ELSE "2024-02"

\* get_monthly_stats line 124: the 'month' column is added to self.df
with_month(t) ==
    [cols |-> t.cols \cup {"month"},
     rows |-> [i \in 1..Len(t.rows) |->
                  t.rows[i] @@ [month |-> to_period_M(t.rows[i].published_at)]]]

\* the records of one month
MonthRows(t, m) == SelectSeq(with_month(t).rows, LAMBDA r : r.month = m)

MonthColumn(rows, c) ==
    [i \in 1..Len(rows) |->
        IF c = "engagement_rate" THEN rows[i].engagement_rate
        ELSE IF c = "views" THEN R(rows[i].views)
        ELSE IF c = "likes" THEN R(rows[i].likes)
        ELSE R(rows[i].comments)]

\* get_monthly_stats: one row per month that has records, in month order
get_monthly_stats(t) ==
    IF IsEmpty(t) THEN NoColumns
    ELSE IF "published_at" \notin t.cols THEN Raise("KeyError")
    ELSE IF ~({"views", "likes", "comments", "engagement_rate", "video_id"} \subseteq t.cols)
    THEN Raise("KeyError")
    ELSE [kind |-> "ok",
          rows |-> SeqMap(LAMBDA m :
                      [month |-> m,
                       views_sum |-> RSum(MonthColumn(MonthRows(t, m), "views")),
                       views_mean |-> RMean(MonthColumn(MonthRows(t, m), "views")),
                       likes_sum |-> RSum(MonthColumn(MonthRows(t, m), "likes")),
                       likes_mean |-> RMean(MonthColumn(MonthRows(t, m), "likes")),
                       comments_sum |-> RSum(MonthColumn(MonthRows(t, m), "comments")),
                       comments_mean |-> RMean(MonthColumn(MonthRows(t, m), "comments")),
                       engagement_rate_mean |->
                           RMean(MonthColumn(MonthRows(t, m), "engagement_rate")),
                       video_count |-> Len(MonthRows(t, m))],
                      SelectSeq(<<"2024-01", "2024-02">>,
                                LAMBDA m : MonthRows(t, m) # <<>>))]

\* the days the clock may show and the windows asked for
Today == {MaxDate, MaxDate + 1}
TrendDays == {1, 30}

GetGrowthTrends ==
    /\ an.cls = "AnalyticsMetrics"
    /\ \E now \in Today, days \in TrendDays :
          /\ args' = <<days>>
          /\ result' = get_growth_trends(an.df, now, days)
    /\ op' = "get_growth_trends"
    /\ an' = IF ~IsEmpty(an.df) /\ "published_at" \in an.df.cols
             THEN [an EXCEPT !.df = with_utc(an.df)] ELSE an
    /\ df' = an'.df

GetMonthlyStats ==
    /\ an.cls = "AnalyticsMetrics"
    /\ op' = "get_monthly_stats"
    /\ args' = <<>>
    /\ result' = get_monthly_stats(an.df)
    /\ an' = IF ~IsEmpty(an.df) /\ "published_at" \in an.df.cols
             THEN [an EXCEPT !.df = with_month(an.df)] ELSE an
    /\ df' = an'.df

(***************************************************************************)
(* The five analyzers built over one caller's table: up to two records     *)
(* with one of two titles, published on days 0..MaxDate.                   *)
(***************************************************************************)
CallerTables ==
    {NoColumns} \cup
    { [cols |-> RecordCols, rows |-> [i \in DOMAIN f |->
            VideoRecord(i, f[i][1], f[i][2], 12, f[i][3], 1, 0, 0)]] :
        f \in {g \in UNION {[1..m -> {TitleMic, TitleVlog} \X (0..MaxDate) \X PatternViews] :
                               m \in 0..2} :
                   \A i \in DOMAIN g : i = 1 \/ g[i - 1][2] <= g[i][2]} }

InitCaller ==
    /\ df \in CallerTables
    /\ NoCall

NextCaller ==
    \/ NewAnalyticsMetrics
    \/ GetSummaryStats
    \/ GetGrowthTrends
    \/ GetMonthlyStats
    \/ NewTrendForecasting
    \/ ForecastViews
    \/ NewPatternDetection
    \/ DetectContentThemes
    \/ NewCalendarOptimizer
    \/ AnalyzeBestDays
    \/ NewABTestSimulator
    \/ AnalyzeThumbnail

SpecCaller == InitCaller /\ [][NextCaller]_vars

(***************************************************************************)
(* Claims about the caller's table, checked under SpecCaller.              *)
(***************************************************************************)
\* C17 (as claimed): whatever is called on any of the five analyzers, the
\* caller's table keeps its columns and its values
C17_CallerTableUnchanged == [][df' = df]_vars

\* C17, the part that holds: the four analyzers that copy the table at
\* construction leave the caller's table as it was
C17_CopyingAnalyzersKeepTable ==
    [][an.cls \in {"TrendForecasting", "PatternDetection", "CalendarOptimizer",
                   "ABTestSimulator"} => df' = df]_vars

(***************************************************************************)
(* forecasting.py: TrendForecasting.get_growth_trajectory.                 *)
(***************************************************************************)
\* a timestamp before another
Before(a, b) == a.date < b.date \/ (a.date = b.date /\ a.hour < b.hour)

\* DataFrame.sort_values('published_at') of a short table: the insertion sort
\* numpy applies to fewer than 16 elements, which keeps equal timestamps in order
Insert(sorted, r) ==
    LET later == {i \in 1..Len(sorted) : Before(r.published_at, sorted[i].published_at)}
        at == IF later = {} THEN Len(sorted) + 1 ELSE SetMin(later)
    IN  SubSeq(sorted, 1, at - 1) \o <<r>> \o SubSeq(sorted, at, Len(sorted))

RECURSIVE sort_values(_)
sort_values(rows) ==
    IF rows = <<>> THEN <<>>
    ELSE Insert(sort_values(SubSeq(rows, 1, Len(rows) - 1)), rows[Len(rows)])

ViewsColumn(rows) == [i \in 1..Len(rows) |-> R(rows[i].views)]
EngagementColumn(rows) == [i \in 1..Len(rows) |-> rows[i].engagement_rate]

\* (second - first) / first * 100
PercentChange(first, second) == RMul(RDiv(RSub(second, first), first), R(100))

\* lines 199-202: the views of the halves are compared by their sums
views_growth_of_means(first_half, second_half) ==
    IF RLess(R(0), RMean(ViewsColumn(first_half)))
    THEN PercentChange(RMean(ViewsColumn(first_half)), RMean(ViewsColumn(second_half)))
    ELSE R(0)

views_growth(first_half, second_half) ==
    IF RLess(R(0), RSum(ViewsColumn(first_half)))
    THEN PercentChange(RSum(ViewsColumn(first_half)), RSum(ViewsColumn(second_half)))
    ELSE R(0)

\* lines 204-207: the engagement of the halves is compared by their means
engagement_growth(first_half, second_half) ==
    IF RLess(R(0), RMean(EngagementColumn(first_half)))
    THEN PercentChange(RMean(EngagementColumn(first_half)),
                       RMean(EngagementColumn(second_half)))
    ELSE R(0)

\* _get_growth_recommendation by the signs alone
growth_recommendation_by_sign(views, engagement) ==
    IF RLess(R(0), views) /\ RLess(R(0), engagement)
    THEN "Moderate growth. Consider increasing upload frequency."
    ELSE IF RLess(R(0), views) /\ RLess(engagement, R(0))
    THEN "Views up but engagement down. Focus on content quality."
    ELSE IF RLess(views, R(0)) /\ RLess(R(0), engagement)
    THEN "Fewer views but higher engagement. Content is resonating."
    ELSE "Declining performance. Review content strategy and posting schedule."

\* _get_growth_recommendation
growth_recommendation(views, engagement) ==
    IF RLess(R(20), views) /\ RLess(R(10), engagement)
    THEN "Excellent growth! Continue current strategy."
    ELSE IF RLess(R(0), views) /\ RLess(R(0), engagement)
    THEN "Moderate growth. Consider increasing upload frequency."
    ELSE IF RLess(R(0), views) /\ RLess(engagement, R(0))
    THEN "Views up but engagement down. Focus on content quality."
    ELSE IF RLess(views, R(0)) /\ RLess(R(0), engagement)
    THEN "Fewer views but higher engagement. Content is resonating."
    ELSE "Declining performance. Review content strategy and posting schedule."

get_growth_trajectory(t) ==
    IF IsEmpty(t) THEN ErrorResult("No data available")
    ELSE LET sorted_df == sort_values(t.rows)
             mid_point == Len(sorted_df) \div 2
             first_half == SubSeq(sorted_df, 1, mid_point)
             second_half == SubSeq(sorted_df, mid_point + 1, Len(sorted_df))
             views == views_growth(first_half, second_half)
             engagement == engagement_growth(first_half, second_half)
         IN  [kind |-> "ok",
              views_growth_percentage |-> views,
              engagement_growth_percentage |-> engagement,
              trend |-> IF RLess(R(0), views) THEN "Growing" ELSE "Declining",
              first_half_avg_views |-> RMean(ViewsColumn(first_half)),
              second_half_avg_views |-> RMean(ViewsColumn(second_half)),
              recommendation |-> growth_recommendation(views, engagement)]

GetGrowthTrajectory ==
    /\ an.cls = "TrendForecasting"
    /\ op' = "get_growth_trajectory"
    /\ args' = <<>>
    /\ result' = get_growth_trajectory(an.df)
    /\ UNCHANGED <<df, an>>

(***************************************************************************)
(* The tables given to the trajectory: up to MaxRows + 1 records, in any   *)
(* order of their publish days, each with one of four (views, likes).      *)
(***************************************************************************)
GrowthMetrics == {<<100, 10>>, <<110, 12>>, <<200, 40>>, <<200, 10>>}

GrowthTables ==
    {NoColumns} \cup
    { [cols |-> RecordCols, rows |-> [i \in DOMAIN f |->
            VideoRecord(i, <<"v">>, d[i], 12, f[i][1], f[i][2], 0, 0)]] :
        f \in UNION {[1..m -> GrowthMetrics] : m \in 0..MaxRows},
        d \in {<<0, 1, 2, 3, 4>>, <<1, 0, 2, 3, 4>>} }

InitGrowth ==
    /\ df \in GrowthTables
    /\ NoCall

NextGrowth ==
    \/ NewTrendForecasting
    \/ GetGrowthTrajectory

SpecGrowth == InitGrowth /\ [][NextGrowth]_vars

(***************************************************************************)
(* Claims about the growth trajectory, checked under SpecGrowth.           *)
(***************************************************************************)
Trajectory == op = "get_growth_trajectory" /\ result.kind = "ok"

FirstHalf == SubSeq(sort_values(an.df.rows), 1, Len(an.df.rows) \div 2)
SecondHalf == SubSeq(sort_values(an.df.rows), Len(an.df.rows) \div 2 + 1, Len(an.df.rows))

EqualViews == \A i, j \in 1..Len(an.df.rows) : an.df.rows[i].views = an.df.rows[j].views

\* C18 (as claimed): the views growth is the percentage change of the mean
\* views of the later half against the mean views of the earlier half, so
\* it is 0 when every record has the same views, for an odd or even number
\* of records; the engagement growth is the same change of the mean rates
C18_GrowthOfHalfMeans ==
    Trajectory =>
        /\ result.views_growth_percentage = views_growth_of_means(FirstHalf, SecondHalf)
        /\ EqualViews => result.views_growth_percentage = R(0)
        /\ result.engagement_growth_percentage = engagement_growth(FirstHalf, SecondHalf)

\* C18, the part that holds: the engagement growth compares the mean rates
\* of the halves, and with an even number of records the views growth equals
\* the change of the mean views
C18_GrowthOfHalfMeansWhenEven ==
    (Trajectory /\ Len(an.df.rows) % 2 = 0) =>
        /\ result.views_growth_percentage = views_growth_of_means(FirstHalf, SecondHalf)
        /\ EqualViews => result.views_growth_percentage = R(0)

\* the trajectory of every table, computed once
Trajectories ==
    [t \in GrowthTables \ {NoColumns} |-> get_growth_trajectory(TrendForecasting_init(t).df)]

SameSigns(a, b) ==
    /\ a.views_growth_percentage.n * b.views_growth_percentage.n > 0
       \/ (a.views_growth_percentage.n = 0 /\ b.views_growth_percentage.n = 0)
    /\ a.engagement_growth_percentage.n * b.engagement_growth_percentage.n > 0
       \/ (a.engagement_growth_percentage.n = 0 /\ b.engagement_growth_percentage.n = 0)

\* C19 (as claimed): two tables whose views growth have the same sign and
\* whose engagement growth have the same sign get the same recommendation
C19_RecommendationBySigns ==
    Trajectory =>
        \A t \in DOMAIN Trajectories :
            (Trajectories[t].kind = "ok" /\ SameSigns(Trajectories[t], result))
                => Trajectories[t].recommendation = result.recommendation

(***************************************************************************)
(* The tables given to the forecaster with a long history: HistoryRows     *)
(* records, one a day or the last two on one day, with flat or bent        *)
(* series of views, subscribers and engagement.                            *)
(***************************************************************************)
HistoryRows == {2, 9, 10}

\* a series that is flat, or differs in its first or its last record
Series(shape, i, n) ==
    CASE shape = "flat" -> 1
      [] shape = "first" -> IF i = 1 THEN 2 ELSE 1
      [] shape = "last" -> IF i = n THEN 2 ELSE 1

HistoryTables ==
    { [cols |-> RecordCols, rows |-> [i \in 1..n |->
            VideoRecord(i, <<"v">>, IF i = n THEN n - 1 - same ELSE i - 1, 12,
                        Series(views, i, n), Series(likes, i, n) - 1, 0,
                        Series(subs, i, n) - 1)]] :
        n \in HistoryRows, same \in {0, 1},
        views \in {"flat", "last"}, likes \in {"flat", "first"},
        subs \in {"flat", "first", "last"} }

InitHistory ==
    /\ df \in HistoryTables
    /\ NoCall

NextHistory ==
    \/ NewTrendForecasting
    \/ ForecastViews
    \/ ForecastSubscribers
    \/ ForecastEngagement

SpecHistory == InitHistory /\ [][NextHistory]_vars

(***************************************************************************)
(* Claims about the model selection, checked under SpecHistory.            *)
(***************************************************************************)
\* the selection policy: a second-degree polynomial from 10 distinct publish
\* dates on, a straight line below
SelectedFit(data, xs) ==
    [i \in 1..Len(xs) |->
        IF Len(data) >= 10 THEN PolyPredict(data, xs[i]) ELSE LinearPredict(data, xs[i])]

Fitted(metric) == SelectedFit(prepare_data(an.df, metric), future_days(an.df, args[1]))

\* C20 (as claimed): the predictions of each of the three forecasts come
\* from a second-degree polynomial when the table has at least 10 distinct
\* publish dates and from a straight line when it has 2 to 9
C20_ModelSelection ==
    (op \in ForecastOps /\ result.kind = "ok") =>
        /\ op = "forecast_views" =>
              /\ result.model_type =
                    IF DistinctDays(an.df) >= 10 THEN "polynomial" ELSE "linear"
              /\ result.predictions =
                    ClampPredictions(Fitted("views"), Ys(prepare_data(an.df, "views")))
        /\ op = "forecast_subscribers" =>
              result.predictions =
                  [i \in 1..args[1] |-> NpMaximum(Fitted("subscribers_gained")[i], R(0))]
        /\ op = "forecast_engagement" =>
              result.predictions =
                  [i \in 1..args[1] |-> NpClip(Fitted("engagement_rate")[i], R(0), R(100))]

\* C20, the part that holds: forecast_views follows the selection policy
C20_ViewsModelSelection ==
    (op = "forecast_views" /\ result.kind = "ok") =>
        /\ result.model_type =
              IF DistinctDays(an.df) >= 10 THEN "polynomial" ELSE "linear"
        /\ result.predictions =
              ClampPredictions(Fitted("views"), Ys(prepare_data(an.df, "views")))

(***************************************************************************)
(* Further claims about the title simulator, checked under SpecAB.         *)
(***************************************************************************)
\* the features whose value differs between the two titles and that the
\* analysis of the table reports, in feature order
ChangedReported(current_title, new_title, patterns) ==
    SelectSeq(feature_cols, LAMBDA f :
        /\ TitleFeatures[current_title][f] # TitleFeatures[new_title][f]
        /\ patterns.kind = "ok"
        /\ f \in DOMAIN patterns.patterns)

\* + improvement_percentage of an added feature, - of a removed one
SignedImpact(new_title, patterns, f) ==
    IF TitleFeatures[new_title][f]
    THEN patterns.patterns[f].improvement_percentage
    ELSE RNeg(patterns.patterns[f].improvement_percentage)

HalfMeanCapped(impacts) ==
    IF impacts = <<>> THEN R(0)
    ELSE NpClip(RDiv(RMean(impacts), R(2)), R(-25), R(25))

MeanViewsWhere(t, f, has) ==
    RMean(ViewsColumn(SelectSeq(t.rows, LAMBDA r : TitleFeatures[r.title][f] = has)))

\* (with - without) / without * 100
RawImprovement(t, f) ==
    RMul(RDiv(RSub(MeanViewsWhere(t, f, TRUE), MeanViewsWhere(t, f, FALSE)),
              MeanViewsWhere(t, f, FALSE)), R(100))

ListedImpacts == [i \in 1..Len(result.pattern_details) |->
                     result.pattern_details[i].expected_impact]

\* C27: the magnitude of the expected_improvement of simulate_title_change
\* is at most 15: every impact lies within [-30, 30] and the mean is
\* halved, so the cap at [-25, 25] leaves the halved mean as it is
C27_ExpectedImprovementAtMost15 ==
    op = "simulate_title_change" =>
        /\ RLeq(R(-15), result.expected_improvement)
        /\ RLeq(result.expected_improvement, R(15))
        /\ \A i \in 1..Len(ListedImpacts) :
              RLeq(R(-30), ListedImpacts[i]) /\ RLeq(ListedImpacts[i], R(30))
        /\ ListedImpacts # <<>> =>
              result.expected_improvement = round2(RDiv(RMean(ListedImpacts), R(2)))

\* C27 witness: the removal of a feature whose improvement is at its cap
\* brings the expected improvement to -15
C27_Witness ==
    /\ op = "simulate_title_change"
    /\ \E i \in 1..Len(result.pattern_details) :
          /\ result.pattern_details[i].change = "Removed"
          /\ result.pattern_details[i].expected_impact = R(-30)
    /\ result.expected_improvement = R(-15)

(***************************************************************************)
(* Further claims about the pattern detector, checked under SpecPattern.   *)
(***************************************************************************)
\* the tier of a theme mean against the mean views of the whole table
Tier(theme_mean, overall) ==
    IF RLeq(RMul(overall, Rat(3, 2)), theme_mean) THEN "Excellent"
    ELSE IF RLeq(overall, theme_mean) THEN "Good"
    ELSE IF RLeq(RMul(overall, Rat(1, 2)), theme_mean) THEN "Average"
    ELSE "Below Average"

\* the records of the theme of keyword k
Members(t, k) == SelectSeq(t.rows, LAMBDA r : IsLongestMatch(t, r.video_id, k))

\* C23 (as claimed): the tier of every theme is 'Excellent' from 1.5 times
\* the mean views of the table, 'Good' from 1.0, 'Average' from 0.5, else
\* 'Below Average', the theme mean being the exact mean of the views of its
\* records; a theme that holds every record is rated 'Good' or 'Excellent'
C23_TierByExactMean ==
    (op = "detect_content_themes" /\ an.df.rows # <<>>) =>
        /\ \A k \in Range(common_words(an.df)) :
              Members(an.df, k) # <<>> =>
                  \E i \in 1..Len(result.themes) :
                      /\ result.themes[i].theme = str_title(k)
                      /\ result.themes[i].performance =
                            Tier(RMean(ViewsColumn(Members(an.df, k))),
                                 RMean(ViewsColumn(an.df.rows)))
        /\ \A i \in 1..Len(result.themes) :
              result.themes[i].count = Len(an.df.rows) =>
                  result.themes[i].performance \in {"Excellent", "Good"}

\* C23, the part that holds: the tier follows the thresholds applied to the
\* theme mean cut to a whole number
C23_TierByTruncatedMean ==
    (op = "detect_content_themes" /\ an.df.rows # <<>>) =>
        \A k \in Range(common_words(an.df)) :
            Members(an.df, k) # <<>> =>
                \E i \in 1..Len(result.themes) :
                    /\ result.themes[i].theme = str_title(k)
                    /\ result.themes[i].performance =
                          Tier(R(RInt(RMean(ViewsColumn(Members(an.df, k))))),
                               RMean(ViewsColumn(an.df.rows)))

(***************************************************************************)
(* calendar_optimizer.py: CalendarOptimizer.generate_calendar.             *)
(***************************************************************************)
\* pd.DataFrame(daily_stats): the frame rebuilt from column -> (day -> value)
DataFrame(columns, order) ==
    [index |-> order,
     data |-> [k \in Range(order) |-> [c \in DOMAIN columns |-> columns[c][k]]]]

\* the first n keys of the frame, whatever their values
first_keys(frame, n, field) == Take(frame.index, n)

\* DataFrame.nlargest(n, field).index on a column that holds NaN: the keys
\* of the largest values first, then the keys of the NaN rows in index
\* order, n keys in all
nlargest_keep_nan(frame, n, field) ==
    Take(nlargest(frame, n, field)
            \o SelectSeq(frame.index, LAMBDA k : IsNaN(frame.data[k][field])), n)

\* _format_hour_ampm
format_hour_ampm(hour) ==
    IF hour = 0 THEN "12:00 AM (Midnight)"
    ELSE IF hour = 12 THEN "12:00 PM (Noon)"
    ELSE IF hour < 12 THEN ToString(hour) \o ":00 AM"
    ELSE ToString(hour - 12) \o ":00 PM"

\* _suggest_content_type: the kind of content of a weekday
suggest_content_type(day) ==
    CASE day = "Monday" -> "Educational"
      [] day = "Tuesday" -> "Tutorial"
      [] day = "Wednesday" -> "List"
      [] day = "Thursday" -> "Reaction"
      [] day = "Friday" -> "Behind the Scenes"
      [] day = "Saturday" -> "Entertainment"
      [] day = "Sunday" -> "Q&A"

\* lines 365-367: the start moved to the Monday of its week, then forward
next_occurrence_from_monday(current_date, day) ==
    current_date - (current_date % 7)
        + (CHOOSE i \in 0..6 : day_order[i + 1] = day)

\* lines 365-367: the first date on or after current_date that falls on day
next_occurrence(current_date, day) ==
    current_date + (CHOOSE i \in 0..6 : day_name(current_date + i) = day)

\* the slots of one week (counted from 0), Monday to Sunday
week_slots(week, best_days, best_hour, start_date, timezone) ==
    SeqMap(LAMBDA day :
              [week |-> week + 1,
               date |-> next_occurrence(start_date + 7 * week, day),
               day |-> day,
               time |-> format_hour_ampm(best_hour),
               time_24h |-> best_hour,
               timezone |-> timezone,
               content_type |-> suggest_content_type(day)],
           SelectSeq(day_order, LAMBDA day : day \in Range(best_days)))

RECURSIVE calendar_weeks(_, _, _, _, _)
calendar_weeks(weeks, best_days, best_hour, start_date, timezone) ==
    IF weeks = 0 THEN <<>>
    ELSE calendar_weeks(weeks - 1, best_days, best_hour, start_date, timezone)
            \o week_slots(weeks - 1, best_days, best_hour, start_date, timezone)

\* lines 350-389: the plan made from the two analyses
calendar_plan(day_analysis, hour_analysis, timezone, weeks, videos_per_week, today) ==
    IF day_analysis.kind = "error" THEN [kind |-> "ok", calendar |-> <<>>]
    ELSE Bind(DataFrame(day_analysis.daily_stats, day_order), LAMBDA daily_stats :
         Bind(nlargest_keep_nan(daily_stats, videos_per_week, "avg_views"), LAMBDA best_days :
             LET best_hour == IF hour_analysis.kind = "error" THEN 14
                              ELSE hour_analysis.best_hour_for_views
             IN  [kind |-> "ok",
                  calendar |-> calendar_weeks(weeks, best_days, best_hour, today, timezone)]))

\* generate_enhanced_calendar, which generate_calendar calls; the title
\* suggestions attached to each slot are left out
generate_calendar(t, timezone, weeks, videos_per_week, today) ==
    calendar_plan(analyze_best_days(t), analyze_best_hours(t, timezone),
                  timezone, weeks, videos_per_week, today)

\* the weeks and the videos a week asked for, and the days the clock may show
CalendarWeeks == {1, 2}
VideosPerWeek == {1, 2, 7}
CalendarToday == {MaxDate + i : i \in 1..7}

\* the calls of generate_calendar on a table, each with its result
calendar_calls(t, timezone) ==
    Bind(analyze_best_days(t), LAMBDA day_analysis :
    Bind(analyze_best_hours(t, timezone), LAMBDA hour_analysis :
        {<<<<weeks, videos_per_week, today>>,
           calendar_plan(day_analysis, hour_analysis, timezone,
                         weeks, videos_per_week, today)>> :
            weeks \in CalendarWeeks, videos_per_week \in VideosPerWeek,
            today \in CalendarToday}))

GenerateCalendar ==
    /\ an.cls = "CalendarOptimizer"
    /\ \E call \in calendar_calls(an.df, an.timezone) :
          /\ args' = call[1]
          /\ result' = call[2]
    /\ op' = "generate_calendar"
    /\ an' = IF ~IsEmpty(an.df) /\ "published_at" \in an.df.cols
             THEN [an EXCEPT !.df = with_hour(with_day_of_week(an.df))] ELSE an
    /\ UNCHANGED df

(***************************************************************************)
(* The tables given to the planner: up to MaxRows records on days          *)
(* 0..MaxDate, in the morning or in the afternoon.                         *)
(***************************************************************************)
\* hour, views, likes of a record: mornings draw fewer views
CalendarMetrics == {<<9, 1000, 10>>, <<14, 3000, 30>>}

CalendarTables ==
    {NoColumns} \cup
    { [cols |-> RecordCols, rows |-> [i \in DOMAIN f |->
            VideoRecord(i, <<"v">>, f[i][1], f[i][2][1], f[i][2][2], f[i][2][3], 0, 0)]] :
        f \in {g \in UNION {[1..m -> (0..MaxDate) \X CalendarMetrics] : m \in 0..MaxRows} :
                   \A i \in DOMAIN g : i = 1 \/ Earlier(<<g[i - 1][1], g[i - 1][2][1]>>,
                                                        <<g[i][1], g[i][2][1]>>)} }

InitCalendar ==
    /\ df \in CalendarTables
    /\ NoCall

NextCalendar ==
    \/ NewCalendarOptimizer
    \/ GenerateCalendar

SpecCalendar == InitCalendar /\ [][NextCalendar]_vars

(***************************************************************************)
(* Claims about the posting plan, checked under SpecCalendar.              *)
(***************************************************************************)
Plan == op = "generate_calendar" /\ an.df.rows # <<>>

\* the weekdays that have a record, and the mean views of one of them
Populated(t) == {t.rows[i].day_of_week : i \in 1..Len(t.rows)}
DayMean(t, d) == RMean(ViewsColumn(SelectSeq(t.rows, LAMBDA r : r.day_of_week = d)))

\* the hour with the highest mean views, the earliest of equals
HourMean(t, h) == RMean(ViewsColumn(SelectSeq(t.rows, LAMBDA r : r.hour = h)))
BestHour(t) ==
    CHOOSE h \in Keys(t, "hour") :
        \A g \in Keys(t, "hour") :
            \/ RLess(HourMean(t, g), HourMean(t, h))
            \/ HourMean(t, g) = HourMean(t, h) /\ h <= g

\* the weekdays of the slots of week k
DaysOfWeek(k) == {result.calendar[i].day : i \in {j \in 1..Len(result.calendar) :
                                                    result.calendar[j].week = k}}
SlotsOfWeek(k) == Cardinality({j \in 1..Len(result.calendar) : result.calendar[j].week = k})

\* the weekdays in S are the best by mean views among those with records
BestPopulated(t, S) ==
    /\ S \subseteq Populated(t)
    /\ \A d \in S : \A e \in Populated(t) \ S : RLeq(DayMean(t, e), DayMean(t, d))

\* the first n weekdays without records, Monday first
FirstUnpopulated(t, n) ==
    Range(Take(SelectSeq(day_order, LAMBDA d : d \notin Populated(t)), n))

\* C24 (as claimed): the plan has W x V slots, V in each of the weeks 1..W,
\* on the V weekdays with the highest mean views among the weekdays that
\* have a record, all at the best hour for views
C24_BestPopulatedDays ==
    Plan =>
        /\ Len(result.calendar) = args[1] * args[2]
        /\ \A k \in 1..args[1] :
              /\ SlotsOfWeek(k) = args[2]
              /\ Cardinality(DaysOfWeek(k)) = args[2]
              /\ BestPopulated(an.df, DaysOfWeek(k))
        /\ \A i \in 1..Len(result.calendar) :
              result.calendar[i].time_24h = BestHour(an.df)

\* C24 (amended): the plan has W x V slots, V in each of the weeks 1..W, all
\* at the best hour for views; with V or more weekdays that have a record
\* they are on the V such weekdays with the highest mean views, with fewer
\* on all of these and on the first weekdays without records, Monday first
C24_BestDaysFilledUp ==
    Plan =>
        /\ Len(result.calendar) = args[1] * args[2]
        /\ \A k \in 1..args[1] :
              /\ SlotsOfWeek(k) = args[2]
              /\ Cardinality(DaysOfWeek(k)) = args[2]
              /\ IF Cardinality(Populated(an.df)) >= args[2]
                 THEN BestPopulated(an.df, DaysOfWeek(k))
                 ELSE DaysOfWeek(k) =
                        Populated(an.df) \cup
                        FirstUnpopulated(an.df, args[2] - Cardinality(Populated(an.df)))
        /\ \A i \in 1..Len(result.calendar) :
              result.calendar[i].time_24h = BestHour(an.df)

\* C24 witness: two slots a week picked among three weekdays with records
\* whose mean views differ
C24_Witness ==
    /\ Plan
    /\ args[2] = 2
    /\ Cardinality(Populated(an.df)) = 3
    /\ \E d \in Populated(an.df) \ DaysOfWeek(1) : \E e \in DaysOfWeek(1) :
          RLess(DayMean(an.df, d), DayMean(an.df, e))
    /\ Len(result.calendar) = 2 * args[1]

\* C25: every slot of week k on weekday d has a date that falls on d and is
\* the first such date on or after today + 7 (k - 1), so it lies at most 6
\* days after that start, and no two slots share a date
C25_NextOccurrence ==
    op = "generate_calendar" =>
        /\ \A i \in 1..Len(result.calendar) :
              LET slot == result.calendar[i]
                  start == args[3] + 7 * (slot.week - 1)
              IN  /\ day_name(slot.date) = slot.day
                  /\ slot.date >= start
                  /\ slot.date <= start + 6
                  /\ \A x \in start..(slot.date - 1) : day_name(x) # slot.day
        /\ \A i, j \in 1..Len(result.calendar) :
              result.calendar[i].date = result.calendar[j].date => i = j

\* C25 witness: a slot of the second week that lies 6 days after the start
\* of its week
C25_Witness ==
    /\ op = "generate_calendar"
    /\ \E i \in 1..Len(result.calendar) :
          /\ result.calendar[i].week = 2
          /\ result.calendar[i].date = args[3] + 7 + 6

\* C28 (as claimed): the slots are listed in non-decreasing order of date
C28_ChronologicalOrder ==
    op = "generate_calendar" =>
        \A i, j \in 1..Len(result.calendar) :
            i < j => result.calendar[i].date <= result.calendar[j].date

\* C28, the part that holds: the slots are listed week by week, and within a
\* week Monday to Sunday
C28_WeekdayOrder ==
    op = "generate_calendar" =>
        \A i, j \in 1..Len(result.calendar) :
            i < j =>
                \/ result.calendar[i].week < result.calendar[j].week
                \/ /\ result.calendar[i].week = result.calendar[j].week
                   /\ \E a, b \in 1..7 : /\ a < b
                                         /\ day_order[a] = result.calendar[i].day
                                         /\ day_order[b] = result.calendar[j].day

(***************************************************************************)
(* pattern_detection.py: PatternDetection.detect_upload_consistency.       *)
(***************************************************************************)
\* lines 192-195: the days between each record and the one before it
day_diffs(dates) == [i \in 1..(Len(dates) - 1) |-> R(dates[i + 1] - dates[i])]

\* np.std(x) squared: the mean squared deviation from the mean
variance(x) ==
    Bind(RMean(x), LAMBDA mean :
        RMean([i \in 1..Len(x) |-> RMul(RSub(x[i], mean), RSub(x[i], mean))]))

\* round(np.std(x), 2) from the variance: the hundredth nearest to its root
MaxHundredths == 1500
round2_sqrt(v) ==
    Rat(CHOOSE k \in 0..MaxHundredths :
            /\ (2 * k - 1) * (2 * k - 1) * v.d <= 40000 * v.n \/ k = 0
            /\ 40000 * v.n < (2 * k + 1) * (2 * k + 1) * v.d, 100)

\* the label drawn from the mean gap, whatever the spread
consistency_by_mean(avg_gap, var_gap) ==
    IF RLeq(avg_gap, R(3)) THEN "Very Consistent"
    ELSE IF RLeq(avg_gap, R(7)) THEN "Moderately Consistent"
    ELSE "Inconsistent"

\* lines 202-207: std_gap < 2, std_gap < 5, else; compared on the squares
consistency(avg_gap, var_gap) ==
    IF RLess(var_gap, R(4)) THEN "Very Consistent"
    ELSE IF RLess(var_gap, R(25)) THEN "Moderately Consistent"
    ELSE "Inconsistent"

\* _get_consistency_recommendation
consistency_recommendation(avg_gap) ==
    IF RLeq(avg_gap, R(3))
    THEN "Excellent consistency! Keep up the regular upload schedule."
    ELSE IF RLeq(avg_gap, R(7))
    THEN "Good consistency. Try to maintain a more regular schedule."
    ELSE "Inconsistent uploads. Consider creating a content calendar."

detect_upload_consistency(t) ==
    IF IsEmpty(t) THEN ErrorResult("No data available")
    ELSE IF Len(t.rows) < 2 THEN ErrorResult("Not enough data")
    ELSE
    Bind(day_diffs(SeqMap(LAMBDA r : r.published_at.date, sort_values(t.rows))), LAMBDA diffs :
    Bind(RMean(diffs), LAMBDA avg_gap :
    Bind(variance(diffs), LAMBDA var_gap :
        [kind |-> "ok",
         avg_days_between_uploads |-> round2(avg_gap),
         std_days_between_uploads |-> round2_sqrt(var_gap),
         consistency |-> consistency(avg_gap, var_gap),
         recommendation |-> consistency_recommendation(avg_gap)])))

DetectUploadConsistency ==
    /\ an.cls = "PatternDetection"
    /\ op' = "detect_upload_consistency"
    /\ args' = <<>>
    /\ result' = detect_upload_consistency(an.df)
    /\ UNCHANGED <<df, an>>

(***************************************************************************)
(* The tables given to the consistency analysis: up to MaxRows + 2         *)
(* records published on a few days, close together or far apart, listed    *)
(* oldest first or newest first.                                           *)
(***************************************************************************)
UploadDays == {0, 1, 3, 12}

Reverse(s) == [i \in 1..Len(s) |-> s[Len(s) + 1 - i]]

UploadTables ==
    {NoColumns} \cup
    { [cols |-> RecordCols, rows |-> [i \in DOMAIN d |->
            VideoRecord(i, <<"v">>, d[i], 12, 100, 1, 0, 0)]] :
        d \in UNION { {g, Reverse(g)} :
                g \in {h \in UNION {[1..m -> UploadDays] : m \in 0..(MaxRows + 2)} :
                          \A i \in DOMAIN h : i = 1 \/ h[i - 1] <= h[i]} } }

InitUpload ==
    /\ df \in UploadTables
    /\ NoCall

NextUpload ==
    \/ NewPatternDetection
    \/ DetectUploadConsistency

SpecUpload == InitUpload /\ [][NextUpload]_vars

(***************************************************************************)
(* Claims about the upload consistency, checked under SpecUpload.          *)
(***************************************************************************)
\* the publish days of the table, oldest first
RECURSIVE Ascending(_)
Ascending(days) ==
    IF days = <<>> THEN <<>>
    ELSE LET least == CHOOSE i \in 1..Len(days) : \A j \in 1..Len(days) : days[i] <= days[j]
         IN  <<days[least]>> \o
             Ascending([i \in 1..(Len(days) - 1) |-> IF i < least THEN days[i] ELSE days[i + 1]])

Gaps(t) ==
    LET days == Ascending([i \in 1..Len(t.rows) |-> t.rows[i].published_at.date])
    IN  [i \in 1..(Len(days) - 1) |-> days[i + 1] - days[i]]

\* n times n times the variance of the gaps, in whole numbers:
\* n * sum of squares - square of the sum
ScaledVariance(gaps) ==
    Len(gaps) * IntSum([i \in 1..Len(gaps) |-> gaps[i] * gaps[i]])
        - IntSum(gaps) * IntSum(gaps)

\* C26: on 2 records or more detect_upload_consistency labels the gaps in
\* days between consecutive publish dates 'Very Consistent' when their
\* standard deviation is below 2, 'Moderately Consistent' when it is at
\* least 2 and below 5, 'Inconsistent' from 5 on; on fewer than 2 records
\* it returns an error and no label
C26_ConsistencyByStd ==
    op = "detect_upload_consistency" =>
        IF Len(an.df.rows) < 2
        THEN result.kind = "error" /\ "consistency" \notin DOMAIN result
        ELSE Bind(Gaps(an.df), LAMBDA gaps :
                /\ result.kind = "ok"
                /\ result.consistency = "Very Consistent"
                      <=> ScaledVariance(gaps) < 4 * Len(gaps) * Len(gaps)
                /\ result.consistency = "Moderately Consistent"
                      <=> /\ ScaledVariance(gaps) >= 4 * Len(gaps) * Len(gaps)
                          /\ ScaledVariance(gaps) < 25 * Len(gaps) * Len(gaps)
                /\ result.consistency = "Inconsistent"
                      <=> ScaledVariance(gaps) >= 25 * Len(gaps) * Len(gaps))

\* C26 witness: three records listed newest first whose gaps have a standard
\* deviation of 1
C26_Witness ==
    /\ op = "detect_upload_consistency"
    /\ Len(an.df.rows) = 3
    /\ an.df.rows[1].published_at.date > an.df.rows[3].published_at.date
    /\ result.kind = "ok"
    /\ result.std_days_between_uploads = R(1)
    /\ result.consistency = "Very Consistent"

\* C29 (as claimed): a result labelled 'Very Consistent' does not recommend
\* a content calendar for inconsistent uploads, and a result labelled
\* 'Inconsistent' does not praise the consistency
C29_LabelAgreesWithRecommendation ==
    (op = "detect_upload_consistency" /\ result.kind = "ok") =>
        /\ result.consistency = "Very Consistent" =>
              result.recommendation #
                  "Inconsistent uploads. Consider creating a content calendar."
        /\ result.consistency = "Inconsistent" =>
              result.recommendation #
                  "Excellent consistency! Keep up the regular upload schedule."

(***************************************************************************)
(* chatbot.py: YouTubeAnalyticsChatbot, its conversation history.          *)
(*                                                                         *)
(* A message is its text together with the keywords of the routing lists   *)
(* that occur in its lower-cased text ('kw in message_lower') and the      *)
(* numbers re.findall(r'\d+') finds in it.  A response is the sequence of  *)
(* its parts, each named after the code that writes it.  The timestamp of  *)
(* a history entry, datetime.now(), is left out.                           *)
(***************************************************************************)
MaxHistory == 4     \* process_message is called while the history has room for two entries

Message(text, contains, numbers) ==
    [text |-> text, contains |-> contains, numbers |-> numbers]

Messages ==
    { Message("channel overview", {"overview"}, <<>>),
      Message("top videos", {"top"}, <<>>),
      Message("worst videos", {"worst"}, <<>>),
      Message("what to post next", {"what to post", "what", "post", "to post"}, <<>>),
      Message("what is the best day to post", {"best", "best day", "what", "post", "to post"}, <<>>),
      Message("When should I post?", {"when", "post"}, <<>>),
      Message("why so few views", {"why", "view"}, <<>>),
      Message("how do I grow", {"grow"}, <<>>),
      Message("trend", {"trend"}, <<>>),
      Message("engagement", {"engagement"}, <<>>),
      Message("thumbnail", {"thumbnail"}, <<>>),
      Message("hello", {}, <<>>),
      Message("export a pdf", {"pdf", "export"}, <<>>),
      Message("sql limit 5", {"sql", "limit"}, <<5>>),
      Message("any query", {"query"}, <<>>) }

Has(message, keywords) == message.contains \cap keywords # {}

\* add_message
add_message(self, role, content) ==
    [self EXCEPT !.conversation_history =
        Append(@, [role |-> role, content |-> content])]

\* YouTubeAnalyticsChatbot.__init__; 'stored' is what get_all_video_metrics
\* returns, the empty table when it fails
YouTubeAnalyticsChatbot_init(t, api_key_set, stored) ==
    [kind |-> "object", cls |-> "YouTubeAnalyticsChatbot",
     df |-> IF IsEmpty(t) THEN stored ELSE t,
     conversation_history |-> <<>>,
     openai_client |-> api_key_set,
     last_pdf_report |-> "unset"]

\* metrics.py get_top_videos / get_worst_videos: the selected columns
TopVideosColumns ==
    {"video_id", "title", "published_at", "views", "likes", "comments", "engagement_rate"}

\* the exception get_top_videos / get_worst_videos raise, "none" without one
top_videos_raises(t) ==
    IF IsEmpty(t) THEN "none"
    ELSE IF TopVideosColumns \subseteq t.cols THEN "none" ELSE "KeyError"

Raised(r) == IF r.kind = "raise" THEN r.exc ELSE "none"

\* the first exception of a sequence of calls, "none" without one
FirstRaised(excs) ==
    IF \A i \in 1..Len(excs) : excs[i] = "none" THEN "none"
    ELSE excs[CHOOSE i \in 1..Len(excs) :
                 excs[i] # "none" /\ \A j \in 1..(i - 1) : excs[j] = "none"]

Responded(part) == [kind |-> "ok", response |-> <<part>>]

Outcome(exc, part) == IF exc = "none" THEN Responded(part) ELSE Raise(exc)

\* _generate_scheduling_response
scheduling_response(t) ==
    Outcome(FirstRaised(<<Raised(analyze_best_days(with_day_of_week(t))),
                          Raised(analyze_best_hours(with_hour(t), "UTC")),
                          Raised(get_performance_by_day(t))>>),
            "scheduling")

\* _generate_forecast_response
forecast_response(t) ==
    Bind(TrendForecasting_init(t), LAMBDA forecast :
        IF forecast.kind = "raise" THEN forecast
        ELSE Outcome(FirstRaised(<<Raised(forecast_views(forecast.df, 30)),
                                   Raised(forecast_subscribers(forecast.df, 30)),
                                   Raised(get_growth_trajectory(forecast.df))>>),
                     "forecast"))

\* _generate_engagement_response: total_likes / total_views on whole numbers
\* without a guard
engagement_response(summary) ==
    IF summary.total_views = 0 THEN Raise("ZeroDivisionError")
    ELSE Responded("engagement")

\* _generate_simulated_llm_response lines 1039-1082: the generator a message
\* is routed to
question_type(message) ==
    IF Has(message, {"summary", "overview", "how am i doing", "channel health",
                     "performance"})
    THEN "overview"
    ELSE IF Has(message, {"top", "best", "highest", "most views"})
    THEN "top videos"
    ELSE IF Has(message, {"worst", "lowest", "bad", "underperforming"})
    THEN "worst videos"
    ELSE IF Has(message, {"what to post", "what should i make", "what to make",
                          "content ideas", "video ideas", "topic", "theme",
                          "content strategy", "what content"})
    THEN "content ideas"
    ELSE IF Has(message, {"when", "schedule", "best time", "best day", "what day",
                          "what time", "upload time", "posting time"})
    THEN IF "what" \notin message.contains \/ "post" \notin message.contains
         THEN "scheduling"
         ELSE IF "to post" \in message.contains /\ "what" \in message.contains
         THEN "content ideas"
         ELSE "scheduling"
    ELSE IF Has(message, {"why", "not performing", "low views", "struggling", "problem"})
    THEN "diagnostic"
    ELSE IF Has(message, {"grow", "improve", "recommendation", "advice", "tips", "strategy"})
    THEN "growth strategy"
    ELSE IF Has(message, {"forecast", "predict", "future", "trend", "projection"})
    THEN "forecast"
    ELSE IF Has(message, {"engagement", "likes", "comments", "interaction"})
    THEN "engagement"
    ELSE IF Has(message, {"ctr", "click", "thumbnail", "impression", "views per impression"})
    THEN "ctr"
    ELSE "general"

\* the response generators: those of the top, worst, content ideas,
\* diagnostic and general responses call get_top_videos or get_worst_videos
\* (detect_content_themes is called in a try block), those of the overview,
\* growth strategy and ctr responses only format the summary
generated_response(t, summary, type) ==
    CASE type = "scheduling" -> scheduling_response(t)
      [] type = "forecast" -> forecast_response(t)
      [] type = "engagement" -> engagement_response(summary)
      [] type \in {"overview", "growth strategy", "ctr"} -> Responded(type)
      [] OTHER -> Outcome(top_videos_raises(t), type)

\* _generate_simulated_llm_response
simulated_llm_response(t, message) ==
    IF IsEmpty(t) THEN Responded("no data yet")
    ELSE Bind(get_summary_stats(t), LAMBDA summary :
            IF summary.kind = "raise" THEN summary
            ELSE generated_response(t, summary, question_type(message)))

\* _generate_openai_response: the statistics gathered for the prompt, then
\* the request, which succeeds or fails
openai_response(t, request_succeeds) ==
    Outcome(FirstRaised(<<Raised(get_summary_stats(t)), top_videos_raises(t),
                          Raised(get_performance_by_day(t)),
                          IF request_succeeds THEN "none" ELSE "APIError">>),
            "openai")

\* generate_sql_query
generate_sql_query(message) ==
    IF {"view", "greater"} \subseteq message.contains /\ message.numbers # <<>>
    THEN <<"SELECT * FROM video_metrics WHERE views >", message.numbers[1],
           "ORDER BY views DESC">>
    ELSE IF "limit" \in message.contains /\ message.numbers # <<>>
    THEN <<"SELECT video_id, title, views, likes FROM video_metrics ORDER BY views DESC LIMIT",
           message.numbers[1]>>
    ELSE <<>>           \* None

\* process_message lines 893-915: the response before the special cases; an
\* exception of the OpenAI response is caught and the simulated response
\* takes its place
first_response(self, message, request_succeeds) ==
    Bind(self.openai_client /\ Len(self.df.rows) > 0, LAMBDA use_openai :
    Bind(IF use_openai THEN openai_response(self.df, request_succeeds) ELSE NoResult,
         LAMBDA attempt :
            IF attempt.kind = "ok" THEN attempt
            ELSE IF use_openai \/ ~IsEmpty(self.df)
            THEN simulated_llm_response(self.df, message)
            ELSE Responded("need channel data")))

\* process_message lines 917-940: the special cases, the report and the query
wants_pdf(message) ==
    Has(message, {"pdf", "report", "download", "export", "create report", "generate report"})

wants_sql(message) == ~wants_pdf(message) /\ Has(message, {"sql", "query"})

special_cases(self, message, first, query, pdf_succeeds) ==
    IF wants_pdf(message)
    THEN IF ~IsEmpty(self.df)
         THEN first \o <<IF pdf_succeeds THEN "pdf generated" ELSE "pdf generation failed">>
         ELSE <<"no data to generate report">>
    ELSE IF wants_sql(message) /\ query # <<>> THEN first \o <<"sql", query>>
    ELSE first

last_pdf_report(self, message, pdf_succeeds) ==
    IF wants_pdf(message)
    THEN IF ~IsEmpty(self.df) /\ pdf_succeeds THEN "bytes" ELSE "None"
    ELSE self.last_pdf_report

\* process_message: the chatbot after the call and what the call returns or
\* raises; request_succeeds and pdf_succeeds are the outcomes of the OpenAI
\* request and of generate_pdf_report
process_message(self, message, request_succeeds, pdf_succeeds) ==
    Bind(add_message(self, "user", message.text), LAMBDA asked :
    Bind(first_response(asked, message, request_succeeds), LAMBDA first :
        IF first.kind = "raise" THEN [self |-> asked, result |-> first]
        ELSE
        Bind(generate_sql_query(message), LAMBDA query :
        Bind(special_cases(asked, message, first.response, query, pdf_succeeds),
             LAMBDA response :
        Bind(add_message([asked EXCEPT !.last_pdf_report =
                             last_pdf_report(asked, message, pdf_succeeds)],
                         "assistant", response), LAMBDA answered :
            [self |-> answered,
             result |-> [kind |-> "ok",
                         response |-> response,
                         query_used |-> IF wants_sql(message) THEN query ELSE <<>>,
                         conversation_length |-> Len(answered.conversation_history),
                         pdf_report |-> IF answered.last_pdf_report = "unset" THEN "None"
                                        ELSE answered.last_pdf_report]])))))

\* clear_history
clear_history(self) == [self EXCEPT !.conversation_history = <<>>]

(***************************************************************************)
(* The chatbot's operations as actions.                                    *)
(***************************************************************************)
\* the tables of the persistence layer have the stored columns, nothing derived
ChatRows ==
    { <<VideoRecord(1, <<"v">>, 0, 12, 0, 0, 0, 0)>>,
      <<VideoRecord(1, <<"v">>, 0, 12, 100, 5, 1, 1),
        VideoRecord(2, <<"w">>, 1, 14, 300, 9, 3, 2)>> }

StoredTables == {[cols |-> StoredCols, rows |-> rows] : rows \in ChatRows}

ChatTables ==
    {NoColumns} \cup StoredTables \cup {[cols |-> RecordCols, rows |-> rows] : rows \in ChatRows}

NewChatbot ==
    /\ op' = "YouTubeAnalyticsChatbot"
    /\ \E api_key_set \in BOOLEAN, stored \in StoredTables \cup {NoColumns} :
          /\ args' = <<api_key_set>>
          /\ an' = YouTubeAnalyticsChatbot_init(df, api_key_set, stored)
    /\ result' = NoResult
    /\ UNCHANGED df

\* every call of the model, worked out once per chatbot
process_message_calls(self) ==
    { <<message.text, process_message(self, message, request_succeeds, pdf_succeeds)>> :
        message \in Messages, request_succeeds \in BOOLEAN, pdf_succeeds \in BOOLEAN }

ProcessMessage ==
    /\ an.cls = "YouTubeAnalyticsChatbot"
    /\ Len(an.conversation_history) + 2 <= MaxHistory
    /\ \E call \in process_message_calls(an) :
          /\ args' = <<call[1]>>
          /\ an' = call[2].self
          /\ result' = call[2].result
    /\ op' = "process_message"
    /\ UNCHANGED df

ClearHistory ==
    /\ an.cls = "YouTubeAnalyticsChatbot"
    /\ op' = "clear_history"
    /\ args' = <<>>
    /\ an' = clear_history(an)
    /\ result' = NoResult
    /\ UNCHANGED df

InitChatbot ==
    /\ df \in ChatTables
    /\ NoCall

NextChatbot ==
    \/ NewChatbot
    \/ ProcessMessage
    \/ ClearHistory

SpecChatbot == InitChatbot /\ [][NextChatbot]_vars

(***************************************************************************)
(* Claims about the conversation history, checked under SpecChatbot.       *)
(***************************************************************************)
History == an.conversation_history

Alternates(history) ==
    /\ Len(history) % 2 = 0
    /\ \A i \in 1..Len(history) :
          history[i].role = IF i % 2 = 1 THEN "user" ELSE "assistant"

\* C30 (as claimed): after any sequence of process_message and clear_history
\* calls the history has even length and alternates 'user', 'assistant'
\* from 'user' on; every process_message call returns, with
\* conversation_length equal to the length of the history; clear_history
\* leaves the history empty
C30_HistoryAlternates ==
    an.cls = "YouTubeAnalyticsChatbot" =>
        /\ Alternates(History)
        /\ op = "process_message" =>
              /\ result.kind = "ok"
              /\ result.conversation_length = Len(History)
        /\ op = "clear_history" => History = <<>>

\* what does hold: a process_message call that returns has appended two
\* entries, the user's message and then the assistant's response, and
\* reports the new length; a call that raises has appended the user's
\* message only
C30_ReturningCallAppendsTwo ==
    [][(an.cls = "YouTubeAnalyticsChatbot" /\ op' = "process_message") =>
          IF result'.kind = "ok"
          THEN /\ Len(History') = Len(History) + 2
               /\ SubSeq(History', 1, Len(History)) = History
               /\ History'[Len(History) + 1] = [role |-> "user", content |-> args'[1]]
               /\ History'[Len(History) + 2] =
                     [role |-> "assistant", content |-> result'.response]
               /\ result'.conversation_length = Len(History')
          ELSE History' = Append(History, [role |-> "user", content |-> args'[1]])]_vars

====
